---- MODULE Spec2Model ----
(***************************************************************************)
(* A model of the real-time voice interview core of InterviewAgent:        *)
(*   - IntelligentDialogManager  (core/intelligent_dialog_manager.py)       *)
(*   - VoiceServiceClient        (core/voice_client.py)                     *)
(*   - IntegratedVoiceSession    (core/voice_audio_manager.py)              *)
(*   - RealtimeVoiceBridge       (core/realtime_voice_bridge.py)            *)
(*   - RealtimeVoiceAdapter / VoiceInterviewSession                         *)
(*                               (core/realtime_voice_adapter.py)           *)
(*   - VoiceProtocolHandler      (core/voice_protocol.py)                   *)
(*   - ExecutorAgent.start       (agents/executor_agent.py)                 *)
(*                                                                         *)
(* SpecDialog   the dialogue manager under every sequence of its public    *)
(*              calls (initialize_session, process_candidate_input,        *)
(*              add_supervisor_instruction).                               *)
(* SpecAnswers  the same manager driven by candidate answers only.         *)
(* SpecInputs   the manager under every public call, on three plans.       *)
(* SpecVoice    the life cycle of the voice stack: start and stop through  *)
(*              the interview session or through the bridge, the           *)
(*              background disconnect and cleanup work of stop, the        *)
(*              receive loop and the audio threads.                        *)
(* SpecRecovery a started bridge whose service asks for the session to be  *)
(*              recreated: _recreate_session, the receive loops and the    *)
(*              capture thread.                                            *)
(* SpecClient   one VoiceServiceClient driven directly, call after call,   *)
(*              while the service may close the socket.                    *)
(* SpecCodec    VoiceProtocolHandler (core/voice_protocol.py): a frame is  *)
(*              built, its bytes arrive whole or cut short, and            *)
(*              parse_response decodes them; the frames are the client's   *)
(*              and the service's.                                         *)
(* SpecPlayback a started bridge receiving texts, audio and other          *)
(*              messages, with the playback thread taking the chunks.      *)
(* SpecCapture  a started bridge whose capture thread hands its chunks to  *)
(*              the event loop, while the session may end or the socket    *)
(*              close.                                                     *)
(* SpecShutdown a started bridge stopped at any point of a recovery.       *)
(* SpecRepeated a started bridge whose service asks again for the session  *)
(*              to be recreated while a recovery is under way.             *)
(* SpecCleanup  a started bridge that is stopped, with the device cleanup  *)
(*              of stop run statement by statement beside the capture      *)
(*              thread.                                                    *)
(***************************************************************************)
EXTENDS Integers, Sequences, FiniteSets, TLC

(***************************************************************************)
(* Bounds of the model.                                                    *)
(***************************************************************************)
MaxSections == 3
MaxPlanQuestions == 3
MaxInputs == 4
MaxQueue == 2
MaxStops == 2
MaxRecoveries == 1

(***************************************************************************)
(* Program constants.                                                      *)
(***************************************************************************)
max_follow_ups == 2
max_retries == 3
retry_delay == 1

VARIABLES
    interview_plan,   \* IntelligentDialogManager.interview_plan: the sizes of
                      \* its sections, in order (a section is its questions)
    context,          \* IntelligentDialogManager.context (DialogContext)
    reply,            \* what the last public call of the manager returned
    follow_up_rounds, \* observation: calls of _generate_follow_up since the
                      \* current main question was posed
    advances,         \* observation: calls of _move_to_next_question so far
    entry,            \* the object the application drives: the executor
                      \* agent, the interview session, the bridge (demo),
                      \* a bare client or the protocol handler
    PYAUDIO_AVAILABLE, \* voice_audio_manager.PYAUDIO_AVAILABLE
    adapter,          \* RealtimeVoiceAdapter: is_running, is_connected
    bridge,           \* RealtimeVoiceBridge: is_connected, is_running and
                      \* whether voice_session is set
    session,          \* IntegratedVoiceSession: is_running, is_recording,
                      \* is_playing, and voice_client as an index of clients
    clients,          \* the VoiceServiceClient objects created so far
    disconnect_tasks, \* the disconnect() tasks stop() has created that
                      \* have not run to their end
    cleanup_tasks,    \* device cleanups submitted to the executor, not run
    audio_device,     \* AudioDeviceManager: pyaudio_instance and streams
    recorder_thread,  \* position of _audio_recorder_loop
    player_thread,    \* position of _audio_player_loop
    recoveries,       \* the _recreate_session coroutines scheduled so far
    returned,         \* what start_interview, RealtimeVoiceBridge.start and
                      \* stop last returned
    chunk_client,     \* observation: the client the last audio chunk of
                      \* the recorder was sent on (0: none yet)
    stop_calls,       \* observation: calls of stop so far
    frame,            \* the protocol frame handed to an encoder
    wire,             \* the bytes handed to parse_response
    decoded,          \* what parse_response did with them
    codec_pc,         \* position of the encode / decode exercise
    call,             \* the last call made on a VoiceServiceClient directly
                      \* and how it ended
    plan_supplied,    \* whether the AgentContext handed to
                      \* ExecutorAgent.start holds an interview plan
    audio_queue,      \* IntegratedVoiceSession.audio_queue: the chunks put
                      \* and not yet taken, oldest first (a chunk is the
                      \* number of its arrival)
    played,           \* observation: the chunks written to the output
                      \* stream so far, in the order of the writes
    received,         \* observation: the messages the session's handler
                      \* has been called with, by what they carry
    capture,          \* the capture loop's handoff of chunks to the event
                      \* loop: where the loop is, the send_audio coroutines
                      \* scheduled and not yet run, and what became of
                      \* each chunk
    cleanup_pc        \* the statement of AudioDeviceManager.cleanup the
                      \* executor thread is about to run, "idle" before a
                      \* cleanup has run and "done" after one has returned

dvars == <<interview_plan, context, reply, follow_up_rounds, advances>>
vvars == <<entry, PYAUDIO_AVAILABLE, adapter, bridge, session, clients,
           disconnect_tasks, cleanup_tasks, audio_device, recorder_thread,
           player_thread, recoveries, returned, chunk_client, stop_calls>>
xvars == <<frame, wire, decoded, codec_pc, call, plan_supplied>>
avars == <<audio_queue, played, received, capture, cleanup_pc>>
vars == <<interview_plan, context, reply, follow_up_rounds, advances,
          entry, PYAUDIO_AVAILABLE, adapter, bridge, session, clients,
          disconnect_tasks, cleanup_tasks, audio_device, recorder_thread,
          player_thread, recoveries, returned, chunk_client, stop_calls,
          frame, wire, decoded, codec_pc, call, plan_supplied,
          audio_queue, played, received, capture, cleanup_pc>>

(***************************************************************************)
(* DialogState, DialogContext.                                             *)
(***************************************************************************)
DialogState ==
    {"initializing", "greeting", "questioning", "listening", "following_up",
     "supervisor_intervention", "transitioning", "closing", "completed"}

RECURSIVE Sum(_)
Sum(seq) == IF seq = <<>> THEN 0 ELSE Head(seq) + Sum(Tail(seq))

\* A plan: at most MaxSections sections holding at most MaxPlanQuestions
\* questions in all; the empty plan and empty sections are plans a caller
\* can pass.
Plans ==
    {p \in UNION {[1..n -> 0..MaxPlanQuestions] : n \in 0..MaxSections} :
        Sum(p) <= MaxPlanQuestions}

\* A supervisor instruction, by what the manager reads of its text: whether it
\* contains a skip keyword and whether it contains a probe keyword.
Instructions == [skip : BOOLEAN, deeper : BOOLEAN]

\* The result of llm_client.analyze_answer as the manager reads it: the two
\* flags of a JSON object, or raises (the request failed, or the JSON is
\* not an object and .get raises).  Unparseable text yields the default
\* object of analyze_answer, which has neither flag set.
Analyses ==
    {a \in [raises : BOOLEAN, needs_clarification : BOOLEAN,
            needs_follow_up : BOOLEAN] :
        a.raises => ~a.needs_clarification /\ ~a.needs_follow_up}

DialogContext ==
    [current_state |-> "initializing",
     current_question_index |-> 0,
     current_section_index |-> 0,
     follow_up_count |-> 0,
     supervisor_instructions |-> <<>>,
     conversation_history |-> [candidate |-> 0, interviewer |-> 0]]

add_conversation(ctx, role) ==
    [ctx EXCEPT !.conversation_history[role] = @ + 1]

update_state(ctx, new_state) ==
    [ctx EXCEPT !.current_state = new_state]

\* _get_current_section: the 1-based position of the section, 0 for None.
get_current_section(ctx) ==
    IF ctx.current_section_index < Len(interview_plan)
    THEN ctx.current_section_index + 1
    ELSE 0

\* _get_current_question: TRUE iff a question is returned (not None).
get_current_question(ctx) ==
    /\ get_current_section(ctx) # 0
    /\ ctx.current_question_index < interview_plan[get_current_section(ctx)]

\* A handler's outcome: the context it leaves, the event that ended it,
\* whether _ask_current_question posed a main question on the way, and
\* whether _move_to_next_question was called.
Out(ctx, ev) ==
    [ctx |-> ctx, ev |-> ev, posed |-> ev = "main_question", advanced |-> FALSE]

close_interview(ctx) ==
    Out(update_state(
            add_conversation(update_state(ctx, "closing"), "interviewer"),
            "completed"),
        "closing")

ask_current_question(ctx) ==
    IF ~get_current_question(ctx)
    THEN close_interview(ctx)
    ELSE Out(add_conversation(
                 [update_state(ctx, "listening") EXCEPT !.follow_up_count = 0],
                 "interviewer"),
             "main_question")

\* _move_to_next_question.  Both ways out of the section switch end in
\* _ask_current_question; they differ in the text returned only.
move_to_next_question(ctx) ==
    LET c1 == [ctx EXCEPT !.current_question_index = @ + 1]
        sec == get_current_section(c1)
        asked ==
            IF sec # 0 /\ c1.current_question_index >= interview_plan[sec]
            THEN LET c2 == [c1 EXCEPT !.current_section_index = @ + 1,
                                      !.current_question_index = 0]
                 IN  IF c2.current_section_index < Len(interview_plan)
                     THEN ask_current_question(c2)
                     ELSE ask_current_question(c2)
            ELSE ask_current_question(c1)
    IN  [asked EXCEPT !.advanced = TRUE]

\* _generate_follow_up: the state is set, then llm_client.generate_follow_up
\* either raises or returns a str, on which .get raises: the call never
\* returns a question.
generate_follow_up(ctx) ==
    Out(update_state(ctx, "following_up"), "follow_up_raised")

ask_for_clarification(ctx, llm_ok) ==
    IF llm_ok
    THEN Out(add_conversation(ctx, "interviewer"), "clarification")
    ELSE Out(ctx, "raised")

handle_question_response(ctx, analysis, llm_ok) ==
    IF ~get_current_question(ctx)
    THEN close_interview(ctx)
    ELSE IF analysis.raises
    THEN Out(ctx, "raised")
    ELSE IF analysis.needs_clarification
    THEN ask_for_clarification(ctx, llm_ok)
    ELSE IF analysis.needs_follow_up /\ ctx.follow_up_count < max_follow_ups
    THEN generate_follow_up(ctx)
    ELSE move_to_next_question(ctx)

\* A slip in the limit test of _handle_followup_response: > for >=.
FollowupLimitReached_OffByOne(ctx) == ctx.follow_up_count > max_follow_ups

\* The limit test of _handle_followup_response.
FollowupLimitReached(ctx) == ctx.follow_up_count >= max_follow_ups

handle_followup_response(ctx, analysis) ==
    LET c1 == [ctx EXCEPT !.follow_up_count = @ + 1]
    IN  IF FollowupLimitReached(c1)
        THEN move_to_next_question(c1)
        ELSE IF ~get_current_question(c1) \/ analysis.raises
        THEN Out(c1, "raised")
        ELSE IF analysis.needs_follow_up
        THEN generate_follow_up(c1)
        ELSE move_to_next_question(c1)

handle_greeting_response(ctx) ==
    ask_current_question(update_state(ctx, "questioning"))

handle_general_response(ctx) == Out(ctx, "general")

\* _handle_supervisor_intervention without its last if statement: the
\* instruction is answered and the state is left as it is.
handle_supervisor_intervention_NoAdjust(ctx, llm_ok) ==
    LET c1 == update_state(ctx, "supervisor_intervention")
        c2 == [add_conversation(c1, "interviewer")
                   EXCEPT !.supervisor_instructions = <<>>]
    IN  IF ~llm_ok THEN Out(c1, "raised") ELSE Out(c2, "intervention")

handle_supervisor_intervention(ctx, llm_ok) ==
    LET c1 == update_state(ctx, "supervisor_intervention")
        latest == c1.supervisor_instructions[Len(c1.supervisor_instructions)]
        c2 == [add_conversation(c1, "interviewer")
                   EXCEPT !.supervisor_instructions = <<>>]
    IN  IF ~llm_ok
        THEN Out(c1, "raised")
        ELSE IF latest.skip
        THEN [move_to_next_question(c2) EXCEPT !.ev = "intervention"]
        ELSE IF latest.deeper
        THEN Out(update_state(c2, "following_up"), "intervention")
        ELSE Out(update_state(c2, "listening"), "intervention")

\* process_candidate_input without its except clause: the exception of a
\* handler reaches the caller.
Utterance_Propagates(ev) == ev

\* What process_candidate_input returns for a handler's outcome: an exception
\* is caught and the fixed apology is returned.
Utterance(ev) ==
    IF ev \in {"raised", "follow_up_raised"} THEN "fallback" ELSE ev

\* The observation of follow-up rounds after a handler's outcome: a call of
\* _generate_follow_up opens a round, a posed main question starts afresh.
Rounds(out) ==
    IF out.ev = "follow_up_raised" THEN follow_up_rounds + 1
    ELSE IF out.posed THEN 0
    ELSE follow_up_rounds

TypeOK ==
    /\ interview_plan \in Plans
    /\ context.current_state \in DialogState
    /\ context.current_question_index \in Nat
    /\ context.current_section_index \in Nat
    /\ context.follow_up_count \in Nat
    /\ context.supervisor_instructions \in Seq(Instructions)
    /\ reply \in {"none", "greeting", "fallback", "main_question", "closing",
                  "clarification", "general", "intervention"}
    /\ follow_up_rounds \in Nat
    /\ advances \in Nat

\* No frame, no decoding and no direct client call yet.
NoFrame == [kind |-> "none", session_id |-> <<>>, payload |-> <<>>]

NotDecoded ==
    [outcome |-> "none", message_type |-> "none", event |-> -1, seq |-> -1,
     session_id |-> [form |-> "str", bytes |-> <<>>], code |-> -1,
     payload_size |-> 0, payload_msg |-> [form |-> "none", data |-> <<>>]]

NoCall ==
    [op |-> "none", result |-> "none", response |-> "none", written |-> 0,
     n |-> 0]

\* The codec and a directly driven client are not exercised.
Unexercised ==
    /\ frame = NoFrame
    /\ wire = <<>>
    /\ decoded = NotDecoded
    /\ codec_pc = "idle"
    /\ call = NoCall

\* Nothing has been received, played or captured.
NoCapture ==
    [pc |-> "idle", chunk |-> 0, pending |-> <<>>, written |-> <<>>,
     failed |-> {}, timed_out |-> {}]

Quiet ==
    /\ audio_queue = <<>>
    /\ played = <<>>
    /\ received = [text |-> 0, audio |-> 0, other |-> 0]
    /\ capture = NoCapture
    /\ cleanup_pc = "idle"

\* The voice objects as their constructors leave them.
Constructed ==
    /\ adapter = [is_running |-> FALSE, is_connected |-> FALSE]
    /\ bridge = [is_connected |-> FALSE, is_running |-> FALSE,
                 voice_session |-> FALSE]
    /\ session = [is_running |-> FALSE, is_recording |-> FALSE,
                  is_playing |-> FALSE, voice_client |-> 0]
    /\ clients = <<>>
    /\ disconnect_tasks = <<>>
    /\ cleanup_tasks = 0
    /\ audio_device = [pyaudio_instance |-> FALSE, input_stream |-> FALSE,
                       output_stream |-> FALSE]
    /\ recorder_thread = "none"
    /\ player_thread = "none"
    /\ recoveries = <<>>
    /\ returned = [start_interview |-> "none", bridge_start |-> "none",
                   stop |-> "none", executor_start |-> "none"]
    /\ chunk_client = 0
    /\ stop_calls = 0

Init ==
    /\ interview_plan \in Plans
    /\ context = DialogContext
    /\ reply = "none"
    /\ follow_up_rounds = 0
    /\ advances = 0
    /\ entry = "interview_session"
    /\ PYAUDIO_AVAILABLE = TRUE
    /\ Constructed
    /\ Unexercised
    /\ Quiet
    /\ plan_supplied = TRUE

\* initialize_session: GREETING, then _generate_greeting, whose LLM call
\* either returns the greeting with the first question (LISTENING) or fails
\* and leaves a canned greeting (the state stays GREETING).
initialize_session ==
    /\ \E llm_ok \in BOOLEAN :
          LET c1 == update_state(context, "greeting")
              c2 == IF llm_ok
                    THEN [update_state(c1, "listening")
                              EXCEPT !.follow_up_count = 0]
                    ELSE c1
          IN  context' = add_conversation(c2, "interviewer")
    /\ reply' = "greeting"
    /\ follow_up_rounds' = 0
    /\ UNCHANGED <<interview_plan, advances>>

InitializeSession ==
    /\ context.current_state = "initializing"
    /\ initialize_session
    /\ UNCHANGED vvars
    /\ UNCHANGED xvars
    /\ UNCHANGED avars

AddSupervisorInstruction ==
    /\ Len(context.supervisor_instructions) < MaxQueue
    /\ \E instruction \in Instructions :
          context' = [context EXCEPT !.supervisor_instructions =
                                        Append(@, instruction)]
    /\ UNCHANGED <<interview_plan, reply, follow_up_rounds, advances>>
    /\ UNCHANGED vvars
    /\ UNCHANGED xvars
    /\ UNCHANGED avars

\* process_candidate_input, by the branch it takes.  Every branch first
\* records the candidate's input.
CanInput == context.conversation_history.candidate < MaxInputs

Recorded == add_conversation(context, "candidate")

Return(out) ==
    /\ context' = out.ctx
    /\ reply' = Utterance(out.ev)
    /\ follow_up_rounds' = Rounds(out)
    /\ advances' = IF out.advanced THEN advances + 1 ELSE advances
    /\ UNCHANGED interview_plan
    /\ UNCHANGED vvars
    /\ UNCHANGED xvars
    /\ UNCHANGED avars

HandleSupervisorIntervention ==
    /\ CanInput
    /\ context.supervisor_instructions # <<>>
    /\ \E llm_ok \in BOOLEAN :
          Return(handle_supervisor_intervention(Recorded, llm_ok))

HandleGreetingResponse ==
    /\ CanInput
    /\ context.supervisor_instructions = <<>>
    /\ context.current_state = "greeting"
    /\ Return(handle_greeting_response(Recorded))

HandleQuestionResponse ==
    /\ CanInput
    /\ context.supervisor_instructions = <<>>
    /\ context.current_state = "listening"
    /\ \E analysis \in Analyses, llm_ok \in BOOLEAN :
          Return(handle_question_response(Recorded, analysis, llm_ok))

HandleFollowupResponse ==
    /\ CanInput
    /\ context.supervisor_instructions = <<>>
    /\ context.current_state = "following_up"
    /\ \E analysis \in Analyses :
          Return(handle_followup_response(Recorded, analysis))

HandleGeneralResponse ==
    /\ CanInput
    /\ context.supervisor_instructions = <<>>
    /\ context.current_state \notin {"greeting", "listening", "following_up"}
    /\ Return(handle_general_response(Recorded))

\* process_candidate_input: the branch is chosen by the queue and the state.
ProcessCandidateInput ==
    \/ HandleSupervisorIntervention
    \/ HandleGreetingResponse
    \/ HandleQuestionResponse
    \/ HandleFollowupResponse
    \/ HandleGeneralResponse

NextDialog ==
    \/ InitializeSession
    \/ AddSupervisorInstruction
    \/ HandleSupervisorIntervention
    \/ HandleGreetingResponse
    \/ HandleQuestionResponse
    \/ HandleFollowupResponse
    \/ HandleGeneralResponse

SpecDialog == Init /\ [][NextDialog]_vars

\* The manager under every public call on three plans: an empty one, a
\* single question, and sections of two and one questions.
InputPlans == {<<>>, <<1>>, <<2, 1>>}

InitInputs == Init /\ interview_plan \in InputPlans

SpecInputs == InitInputs /\ [][NextDialog]_vars

NextAnswers ==
    \/ InitializeSession
    \/ HandleGreetingResponse
    \/ HandleQuestionResponse
    \/ HandleFollowupResponse
    \/ HandleGeneralResponse

SpecAnswers == Init /\ [][NextAnswers]_vars

(***************************************************************************)
(* VoiceServiceClient.                                                     *)
(***************************************************************************)
\* A client as __init__ leaves it; receiver is the position of its
\* receive_messages task.  Two observations ride with the client: the
\* finish-connection frames written on its socket and the
\* on_connection_lost notifications its receive loop delivered.
VoiceServiceClient ==
    [is_connected |-> FALSE, is_session_started |-> FALSE, ws |-> "none",
     receiver |-> "none", on_connection_lost |-> FALSE,
     finish_connection_sent |-> 0, connection_lost |-> 0]

\* What the service does with a new connection: refuse the socket, reject
\* the connection request, reject the session request, or accept all.
Outcomes == {"refused", "handshake_rejected", "session_rejected", "ok"}

\* connect: is_connected is set only after the connection request is
\* acknowledged; a rejected request leaves the opened socket in ws.
connect(cl, outcome) ==
    IF outcome = "refused" THEN [cl EXCEPT !.is_connected = FALSE]
    ELSE IF outcome = "handshake_rejected"
    THEN [cl EXCEPT !.ws = "open", !.is_connected = FALSE]
    ELSE [cl EXCEPT !.ws = "open", !.is_connected = TRUE]

\* start_session that takes every response for a full response.
start_session_AnyResponse(cl, outcome) ==
    IF cl.is_connected /\ cl.ws = "open"
    THEN [cl EXCEPT !.is_session_started = TRUE]
    ELSE cl

\* start_session: refuses an unconnected client; is_session_started is set
\* when the request could be sent and the service answers it with a full
\* response.  No path touches is_connected.
start_session(cl, outcome) ==
    IF cl.is_connected /\ cl.ws = "open" /\ outcome = "ok"
    THEN [cl EXCEPT !.is_session_started = TRUE]
    ELSE cl

\* disconnect up to its first wait: the session flag is cleared; a
\* connected client with a socket sends the finish request and waits for
\* the acknowledgement and the close, any other client goes straight to
\* the finally block.
disconnect_finally(cl) ==
    [cl EXCEPT !.is_connected = FALSE, !.is_session_started = FALSE,
               !.ws = "none"]

disconnect_begin(cl) ==
    LET c1 == [cl EXCEPT !.is_session_started = FALSE]
    IN  IF c1.is_connected /\ c1.ws # "none"
        THEN [client |-> [c1 EXCEPT !.finish_connection_sent =
                                       IF c1.ws = "open" THEN @ + 1 ELSE @],
              waiting |-> TRUE]
        ELSE [client |-> disconnect_finally(c1), waiting |-> FALSE]

\* The session's current client is connected.
SessionConnected ==
    /\ session.voice_client # 0
    /\ clients[session.voice_client].is_connected

\* The session the transport holds is active.
SessionActive ==
    /\ session.voice_client # 0
    /\ clients[session.voice_client].is_connected
    /\ clients[session.voice_client].is_session_started

(***************************************************************************)
(* AudioDeviceManager and IntegratedVoiceSession.                          *)
(***************************************************************************)
cleanup(dev) ==
    [pyaudio_instance |-> FALSE, input_stream |-> FALSE,
     output_stream |-> FALSE]

\* A stop that runs the device cleanup itself before it returns.
DeviceOnStop_Inline(dev) == cleanup(dev)

\* What stop() has done to the device when it returns: the cleanup is
\* submitted to the executor and not waited for.
DeviceOnStop(dev) == dev

\* A stop that leaves the recording flag alone.
stopped_KeepsRecording(s) ==
    [s EXCEPT !.is_running = FALSE, !.is_playing = FALSE]

\* The flags stop() clears first.
stopped(s) ==
    [s EXCEPT !.is_running = FALSE, !.is_recording = FALSE,
              !.is_playing = FALSE]

\* A recovery loop that goes round once more.
MoreAttempts_OneMore(attempt) == attempt <= max_retries

\* for attempt in range(max_retries): attempt counts the attempts that
\* have failed.
MoreAttempts(attempt) == attempt < max_retries

Recovery ==
    [pc |-> "attempt", attempt |-> 0, retry_delay |-> retry_delay,
     client |-> 0, sleeps |-> <<>>, result |-> "pending"]

\* IntegratedVoiceSession.stop: clears the flags, creates the disconnect
\* task when the client is connected, submits the device cleanup, and
\* returns True.
session_stop ==
    LET vc == session.voice_client
    IN  /\ session' = stopped(session)
        /\ disconnect_tasks' =
              IF SessionConnected
              THEN Append(disconnect_tasks,
                          [client |-> vc, pc |-> "scheduled"])
              ELSE disconnect_tasks
        /\ cleanup_tasks' = cleanup_tasks + 1
        /\ audio_device' = DeviceOnStop(audio_device)

\* RealtimeVoiceBridge.stop.
bridge_stop ==
    /\ bridge' = [bridge EXCEPT !.is_running = FALSE, !.is_connected = FALSE]
    /\ IF bridge.voice_session
       THEN session_stop
       ELSE UNCHANGED <<session, disconnect_tasks, cleanup_tasks,
                        audio_device>>

(***************************************************************************)
(* Start and stop.                                                         *)
(***************************************************************************)
\* VoiceInterviewSession.start_interview: RealtimeVoiceAdapter.start sets
\* is_running, initialises the dialogue, and calls _connect_websocket,
\* which passes the session configuration to RealtimeVoiceBridge.start;
\* start() takes no such argument, the call raises TypeError before the
\* bridge does anything, _connect_websocket clears is_connected and
\* re-raises, and start_interview reports the error.
start_interview ==
    /\ initialize_session
    /\ adapter' = [is_running |-> TRUE, is_connected |-> FALSE]

StartInterview ==
    /\ entry = "interview_session"
    /\ returned.start_interview = "none"
    /\ start_interview
    /\ returned' = [returned EXCEPT !.start_interview = "error"]
    /\ UNCHANGED <<entry, PYAUDIO_AVAILABLE, bridge, session, clients,
                   disconnect_tasks, cleanup_tasks, audio_device,
                   recorder_thread, player_thread, recoveries, chunk_client,
                   stop_calls>>
    /\ UNCHANGED xvars
    /\ UNCHANGED avars

\* ExecutorAgent.start (an alias of process) in real-time voice mode:
\* without an interview plan in the context it raises
\* ValueError("缺少面试计划") before it creates anything; with one it creates
\* the VoiceInterviewSession, calls start_interview and raises when the
\* status is not "success".
ExecutorStart ==
    /\ entry = "executor"
    /\ returned.executor_start = "none"
    /\ IF ~plan_supplied
       THEN /\ returned' = [returned EXCEPT !.executor_start = "no_plan"]
            /\ UNCHANGED dvars
            /\ UNCHANGED adapter
       ELSE /\ start_interview
            /\ returned' = [returned EXCEPT !.start_interview = "error",
                                            !.executor_start = "error"]
    /\ UNCHANGED <<entry, PYAUDIO_AVAILABLE, bridge, session, clients,
                   disconnect_tasks, cleanup_tasks, audio_device,
                   recorder_thread, player_thread, recoveries, chunk_client,
                   stop_calls>>
    /\ UNCHANGED xvars
    /\ UNCHANGED avars

\* VoiceInterviewSession.stop_interview: RealtimeVoiceAdapter.stop clears
\* its flags and stops the bridge.
StopInterview ==
    /\ entry = "interview_session"
    /\ stop_calls < MaxStops
    /\ adapter' = [is_running |-> FALSE, is_connected |-> FALSE]
    /\ bridge_stop
    /\ returned' = [returned EXCEPT !.stop = "success"]
    /\ stop_calls' = stop_calls + 1
    /\ UNCHANGED dvars
    /\ UNCHANGED xvars
    /\ UNCHANGED avars
    /\ UNCHANGED <<entry, PYAUDIO_AVAILABLE, clients, recorder_thread,
                   player_thread, recoveries, chunk_client>>

\* RealtimeVoiceBridge.start: creates the IntegratedVoiceSession (with its
\* client and its audio device) and starts it.  IntegratedVoiceSession.start
\* returns False when connect fails; when start_session succeeds it starts
\* the receive task, opens the output stream and starts the threads; it
\* returns True whether start_session succeeded or not.
BridgeStart ==
    /\ entry \in {"bridge", "adapter_bridge"}
    /\ returned.bridge_start = "none"
    /\ \E outcome \in Outcomes :
          LET cl == start_session(connect(VoiceServiceClient, outcome),
                                  outcome)
              started == cl.is_session_started
              success == cl.is_connected
          IN  /\ clients' =
                    <<[cl EXCEPT !.receiver =
                                    IF started THEN "running" ELSE "none"]>>
              /\ session' =
                    [is_running |-> started,
                     is_recording |-> started /\ PYAUDIO_AVAILABLE,
                     is_playing |-> started,
                     voice_client |-> 1]
              /\ audio_device' =
                    [pyaudio_instance |-> PYAUDIO_AVAILABLE,
                     input_stream |-> FALSE,
                     output_stream |-> started /\ PYAUDIO_AVAILABLE]
              /\ player_thread' = IF started THEN "running" ELSE "none"
              /\ recorder_thread' =
                    IF started /\ PYAUDIO_AVAILABLE THEN "starting"
                    ELSE "none"
              /\ bridge' =
                    [is_connected |-> success \/ bridge.is_connected,
                     is_running |-> success \/ bridge.is_running,
                     voice_session |-> TRUE]
              /\ returned' =
                    [returned EXCEPT !.bridge_start =
                        IF success THEN "success" ELSE "failure"]
    /\ UNCHANGED dvars
    /\ UNCHANGED xvars
    /\ UNCHANGED avars
    /\ UNCHANGED <<entry, PYAUDIO_AVAILABLE, adapter, disconnect_tasks,
                   cleanup_tasks, recoveries, chunk_client, stop_calls>>

BridgeStop ==
    /\ entry = "bridge"
    /\ stop_calls < MaxStops
    /\ bridge_stop
    /\ returned' = [returned EXCEPT !.stop = "success"]
    /\ stop_calls' = stop_calls + 1
    /\ UNCHANGED dvars
    /\ UNCHANGED xvars
    /\ UNCHANGED avars
    /\ UNCHANGED <<entry, PYAUDIO_AVAILABLE, adapter, clients,
                   recorder_thread, player_thread, recoveries, chunk_client>>

(***************************************************************************)
(* Background work of stop.                                                *)
(***************************************************************************)
SetClient(i, cl) == clients' = [clients EXCEPT ![i] = cl]

\* The tasks still pending once task t has run to its end.
Finished(tasks, t) ==
    SubSeq(tasks, 1, t - 1) \o SubSeq(tasks, t + 1, Len(tasks))

\* The disconnect task runs up to its first wait.
DisconnectBegin ==
    \E t \in 1..Len(disconnect_tasks) :
       /\ disconnect_tasks[t].pc = "scheduled"
       /\ LET b == disconnect_begin(clients[disconnect_tasks[t].client])
          IN  /\ SetClient(disconnect_tasks[t].client, b.client)
              /\ disconnect_tasks' =
                    IF b.waiting
                    THEN [disconnect_tasks EXCEPT ![t].pc = "closing"]
                    ELSE Finished(disconnect_tasks, t)
       /\ UNCHANGED dvars
       /\ UNCHANGED xvars
       /\ UNCHANGED avars
       /\ UNCHANGED <<entry, PYAUDIO_AVAILABLE, adapter, bridge, session,
                      cleanup_tasks, audio_device, recorder_thread,
                      player_thread, recoveries, returned, chunk_client,
                      stop_calls>>

\* The acknowledgement arrived or timed out, the socket is closed, and the
\* finally block resets the client.
DisconnectFinish ==
    \E t \in 1..Len(disconnect_tasks) :
       /\ disconnect_tasks[t].pc = "closing"
       /\ SetClient(disconnect_tasks[t].client,
                    disconnect_finally(clients[disconnect_tasks[t].client]))
       /\ disconnect_tasks' = Finished(disconnect_tasks, t)
       /\ UNCHANGED dvars
       /\ UNCHANGED xvars
       /\ UNCHANGED avars
       /\ UNCHANGED <<entry, PYAUDIO_AVAILABLE, adapter, bridge, session,
                      cleanup_tasks, audio_device, recorder_thread,
                      player_thread, recoveries, returned, chunk_client,
                      stop_calls>>

\* The executor runs _blocking_cleanup_task.
CleanupRun ==
    /\ cleanup_tasks > 0
    /\ cleanup_tasks' = cleanup_tasks - 1
    /\ audio_device' = cleanup(audio_device)
    /\ UNCHANGED dvars
    /\ UNCHANGED xvars
    /\ UNCHANGED avars
    /\ UNCHANGED <<entry, PYAUDIO_AVAILABLE, adapter, bridge, session,
                   clients, disconnect_tasks, recorder_thread, player_thread,
                   recoveries, returned, chunk_client, stop_calls>>

(***************************************************************************)
(* receive_messages and _handle_voice_message.                             *)
(***************************************************************************)
\* The finally block of receive_messages: the notification is delivered
\* when a callback is registered.
notify(cl) ==
    IF cl.on_connection_lost
    THEN [cl EXCEPT !.connection_lost = @ + 1]
    ELSE cl

Receiving(c) ==
    /\ clients[c].receiver = "running"
    /\ clients[c].is_connected
    /\ clients[c].ws = "open"

\* A server error asking to recreate the session: the handler clears
\* is_session_started of the session's current client and schedules
\* _recreate_session; the receive loop goes on.
RecreateError ==
    \E c \in 1..Len(clients) :
       /\ Receiving(c)
       /\ SetClient(session.voice_client,
                    [clients[session.voice_client]
                        EXCEPT !.is_session_started = FALSE])
       /\ recoveries' = Append(recoveries, Recovery)
       /\ UNCHANGED dvars
       /\ UNCHANGED xvars
       /\ UNCHANGED avars
       /\ UNCHANGED <<entry, PYAUDIO_AVAILABLE, adapter, bridge, session,
                      disconnect_tasks, cleanup_tasks, audio_device,
                      recorder_thread, player_thread, returned, chunk_client,
                      stop_calls>>

ReceiveRecreateError ==
    /\ Len(recoveries) < MaxRecoveries
    /\ RecreateError

\* The same error, also while the recoveries of earlier errors are under
\* way: the handler schedules one more.
ReceiveRecreateErrorAgain ==
    /\ Len(recoveries) < MaxRecoveries + 1
    /\ RecreateError

\* A session-finished or session-failed event (152, 153) ends the loop.
ReceiveSessionEnd ==
    \E c \in 1..Len(clients) :
       /\ Receiving(c)
       /\ SetClient(c, notify([clients[c]
                                  EXCEPT !.is_session_started = FALSE,
                                         !.receiver = "done"]))
       /\ UNCHANGED dvars
       /\ UNCHANGED xvars
       /\ UNCHANGED avars
       /\ UNCHANGED <<entry, PYAUDIO_AVAILABLE, adapter, bridge, session,
                      disconnect_tasks, cleanup_tasks, audio_device,
                      recorder_thread, player_thread, recoveries, returned,
                      chunk_client, stop_calls>>

\* The service closes the socket.
PeerClose ==
    \E c \in 1..Len(clients) :
       /\ clients[c].ws = "open"
       /\ clients[c].is_connected
       /\ SetClient(c, [clients[c] EXCEPT !.ws = "closed"])
       /\ UNCHANGED dvars
       /\ UNCHANGED xvars
       /\ UNCHANGED avars
       /\ UNCHANGED <<entry, PYAUDIO_AVAILABLE, adapter, bridge, session,
                      disconnect_tasks, cleanup_tasks, audio_device,
                      recorder_thread, player_thread, recoveries, returned,
                      chunk_client, stop_calls>>

\* recv() on a socket closed by the service or by disconnect raises
\* ConnectionClosed: both flags are cleared and the loop ends.
ReceiveConnectionClosed ==
    \E c \in 1..Len(clients) :
       /\ clients[c].receiver = "running"
       /\ clients[c].ws # "open"
       /\ SetClient(c, notify([clients[c]
                                  EXCEPT !.is_connected = FALSE,
                                         !.is_session_started = FALSE,
                                         !.receiver = "done"]))
       /\ UNCHANGED dvars
       /\ UNCHANGED xvars
       /\ UNCHANGED avars
       /\ UNCHANGED <<entry, PYAUDIO_AVAILABLE, adapter, bridge, session,
                      disconnect_tasks, cleanup_tasks, audio_device,
                      recorder_thread, player_thread, recoveries, returned,
                      chunk_client, stop_calls>>

(***************************************************************************)
(* The audio threads.                                                      *)
(***************************************************************************)
\* _audio_recorder_loop after its initial sleep: opens the input stream.
RecorderOpen ==
    /\ recorder_thread = "starting"
    /\ recorder_thread' = "running"
    /\ audio_device' = [audio_device EXCEPT !.input_stream =
                                               audio_device.pyaudio_instance]
    /\ UNCHANGED dvars
    /\ UNCHANGED xvars
    /\ UNCHANGED avars
    /\ UNCHANGED <<entry, PYAUDIO_AVAILABLE, adapter, bridge, session,
                   clients, disconnect_tasks, cleanup_tasks, player_thread,
                   recoveries, returned, chunk_client, stop_calls>>

\* One round of the capture loop that reads a chunk and sends it on the
\* session's current client.
RecorderSend ==
    /\ recorder_thread = "running"
    /\ session.is_recording /\ session.is_running
    /\ audio_device.input_stream
    /\ SessionActive
    /\ chunk_client # session.voice_client
    /\ chunk_client' = session.voice_client
    /\ UNCHANGED dvars
    /\ UNCHANGED xvars
    /\ UNCHANGED avars
    /\ UNCHANGED <<entry, PYAUDIO_AVAILABLE, adapter, bridge, session,
                   clients, disconnect_tasks, cleanup_tasks, audio_device,
                   recorder_thread, player_thread, recoveries, returned,
                   stop_calls>>

\* The capture loop tests its condition, finds a flag cleared, and the
\* thread ends; nothing starts it again.
RecorderExit ==
    /\ recorder_thread = "running"
    /\ ~(session.is_recording /\ session.is_running)
    /\ recorder_thread' = "exited"
    /\ UNCHANGED dvars
    /\ UNCHANGED xvars
    /\ UNCHANGED avars
    /\ UNCHANGED <<entry, PYAUDIO_AVAILABLE, adapter, bridge, session,
                   clients, disconnect_tasks, cleanup_tasks, audio_device,
                   player_thread, recoveries, returned, chunk_client,
                   stop_calls>>

\* _audio_player_loop finds is_playing cleared.
PlayerExit ==
    /\ player_thread = "running"
    /\ ~session.is_playing
    /\ player_thread' = "exited"
    /\ UNCHANGED dvars
    /\ UNCHANGED xvars
    /\ UNCHANGED avars
    /\ UNCHANGED <<entry, PYAUDIO_AVAILABLE, adapter, bridge, session,
                   clients, disconnect_tasks, cleanup_tasks, audio_device,
                   recorder_thread, recoveries, returned, chunk_client,
                   stop_calls>>

(***************************************************************************)
(* _recreate_session.                                                      *)
(***************************************************************************)
\* An attempt begins: recording is switched off and the current client is
\* disconnected.
RecoveryAttempt ==
    \E r \in 1..Len(recoveries) :
       /\ recoveries[r].pc = "attempt"
       /\ LET vc == session.voice_client
              b == disconnect_begin(clients[vc])
          IN  /\ session' = [session EXCEPT !.is_recording = FALSE]
              /\ SetClient(vc, b.client)
              /\ recoveries' =
                    [recoveries EXCEPT
                        ![r].client = vc,
                        ![r].pc = IF b.waiting THEN "disconnecting"
                                  ELSE "sleeping"]
       /\ UNCHANGED dvars
       /\ UNCHANGED xvars
       /\ UNCHANGED avars
       /\ UNCHANGED <<entry, PYAUDIO_AVAILABLE, adapter, bridge,
                      disconnect_tasks, cleanup_tasks, audio_device,
                      recorder_thread, player_thread, returned, chunk_client,
                      stop_calls>>

\* The disconnect of the attempt completes.
RecoveryDisconnected ==
    \E r \in 1..Len(recoveries) :
       /\ recoveries[r].pc = "disconnecting"
       /\ SetClient(recoveries[r].client,
                    disconnect_finally(clients[recoveries[r].client]))
       /\ recoveries' = [recoveries EXCEPT ![r].pc = "sleeping"]
       /\ UNCHANGED dvars
       /\ UNCHANGED xvars
       /\ UNCHANGED avars
       /\ UNCHANGED <<entry, PYAUDIO_AVAILABLE, adapter, bridge, session,
                      disconnect_tasks, cleanup_tasks, audio_device,
                      recorder_thread, player_thread, returned, chunk_client,
                      stop_calls>>

\* After the sleep a new client is created, connected and its session
\* started.  On success the receive task is created, recording is switched
\* on again and the coroutine returns True; otherwise the delay doubles and
\* the loop goes round, or ends returning False.
RecoveryReconnect ==
    \E r \in 1..Len(recoveries), outcome \in Outcomes :
       /\ recoveries[r].pc = "sleeping"
       /\ LET rec == recoveries[r]
              cl == start_session(connect(VoiceServiceClient, outcome),
                                  outcome)
              ok == cl.is_session_started
              failed == rec.attempt + 1
          IN  /\ clients' =
                    Append(clients,
                           [cl EXCEPT !.receiver =
                                         IF ok THEN "running" ELSE "none"])
              /\ session' =
                    [session EXCEPT
                        !.voice_client = Len(clients) + 1,
                        !.is_recording =
                            IF ok /\ PYAUDIO_AVAILABLE THEN TRUE ELSE @]
              /\ recoveries' =
                    [recoveries EXCEPT ![r] =
                        IF ok
                        THEN [rec EXCEPT
                                 !.sleeps = Append(@, rec.retry_delay),
                                 !.pc = "done", !.result = "True"]
                        ELSE [rec EXCEPT
                                 !.sleeps = Append(@, rec.retry_delay),
                                 !.retry_delay = @ * 2,
                                 !.attempt = failed,
                                 !.pc = IF MoreAttempts(failed)
                                        THEN "attempt" ELSE "done",
                                 !.result = IF MoreAttempts(failed)
                                            THEN "pending" ELSE "False"]]
       /\ UNCHANGED dvars
       /\ UNCHANGED xvars
       /\ UNCHANGED avars
       /\ UNCHANGED <<entry, PYAUDIO_AVAILABLE, adapter, bridge,
                      disconnect_tasks, cleanup_tasks, audio_device,
                      recorder_thread, player_thread, returned, chunk_client,
                      stop_calls>>

(***************************************************************************)
(* The specifications of the voice stack.                                  *)
(***************************************************************************)
VoicePlans == {<<>>, <<2, 1>>}

InitVoice ==
    /\ interview_plan \in VoicePlans
    /\ context = DialogContext
    /\ reply = "none"
    /\ follow_up_rounds = 0
    /\ advances = 0
    /\ entry \in {"executor", "interview_session", "bridge"}
    /\ PYAUDIO_AVAILABLE \in BOOLEAN
    /\ Constructed
    /\ Unexercised
    /\ Quiet
    /\ plan_supplied \in BOOLEAN
    /\ ~plan_supplied => interview_plan = <<>> /\ entry # "bridge"

NextVoice ==
    \/ ExecutorStart
    \/ StartInterview
    \/ StopInterview
    \/ BridgeStart
    \/ BridgeStop
    \/ DisconnectBegin
    \/ DisconnectFinish
    \/ CleanupRun
    \/ ReceiveSessionEnd
    \/ PeerClose
    \/ ReceiveConnectionClosed
    \/ RecorderOpen
    \/ RecorderSend
    \/ RecorderExit
    \/ PlayerExit

SpecVoice == InitVoice /\ [][NextVoice]_vars

\* The bridge driven directly, as the demo drives it: no dialogue manager
\* is attached to it.
InitRecovery ==
    /\ InitVoice
    /\ entry = "bridge"

NextRecovery ==
    \/ BridgeStart
    \/ ReceiveRecreateError
    \/ ReceiveConnectionClosed
    \/ RecoveryAttempt
    \/ RecoveryDisconnected
    \/ RecoveryReconnect
    \/ RecorderOpen
    \/ RecorderSend
    \/ RecorderExit

SpecRecovery == InitRecovery /\ [][NextRecovery]_vars

VoiceTypeOK ==
    /\ entry \in {"executor", "interview_session", "bridge"}
    /\ PYAUDIO_AVAILABLE \in BOOLEAN
    /\ adapter \in [is_running : BOOLEAN, is_connected : BOOLEAN]
    /\ bridge \in [is_connected : BOOLEAN, is_running : BOOLEAN,
                   voice_session : BOOLEAN]
    /\ session \in [is_running : BOOLEAN, is_recording : BOOLEAN,
                    is_playing : BOOLEAN, voice_client : 0..Len(clients)]
    /\ \A c \in 1..Len(clients) :
          clients[c] \in [is_connected : BOOLEAN,
                          is_session_started : BOOLEAN,
                          ws : {"none", "open", "closed"},
                          receiver : {"none", "running", "done"},
                          on_connection_lost : {FALSE},
                          finish_connection_sent : Nat,
                          connection_lost : Nat]
    /\ \A t \in 1..Len(disconnect_tasks) :
          /\ disconnect_tasks[t].client \in 1..Len(clients)
          /\ disconnect_tasks[t].pc \in {"scheduled", "closing"}
    /\ cleanup_tasks \in 0..MaxStops
    /\ audio_device \in [pyaudio_instance : BOOLEAN, input_stream : BOOLEAN,
                         output_stream : BOOLEAN]
    /\ recorder_thread \in {"none", "starting", "running", "exited"}
    /\ player_thread \in {"none", "running", "exited"}
    /\ \A r \in 1..Len(recoveries) :
          /\ recoveries[r].pc \in
                {"attempt", "disconnecting", "sleeping", "done"}
          /\ recoveries[r].result \in {"pending", "True", "False"}
    /\ returned \in [start_interview : {"none", "success", "error"},
                     bridge_start : {"none", "success", "failure"},
                     stop : {"none", "success"},
                     executor_start : {"none", "no_plan", "error"}]
    /\ plan_supplied \in BOOLEAN
    /\ chunk_client \in 0..Len(clients)
    /\ stop_calls \in 0..MaxStops

(***************************************************************************)
(* A VoiceServiceClient driven directly, one call after another, while the *)
(* service may close the socket at any moment.                             *)
(***************************************************************************)
MaxCalls == 4

\* The test send_audio and send_text make before they build a frame.
NotActive_ConnectedOnly(cl) == ~cl.is_connected

NotActive(cl) == ~cl.is_connected \/ ~cl.is_session_started

\* send_audio: Exception("会话未启动") before anything is built when the
\* session is not active; otherwise one audio frame is written, unless the
\* socket is closed and send raises.  Every exception is re-raised.
send_audio(cl) ==
    IF NotActive(cl) THEN [result |-> "NotActive", written |-> 0]
    ELSE IF cl.ws = "open" THEN [result |-> "None", written |-> 1]
    ELSE [result |-> "ConnectionClosed", written |-> 0]

\* send_text: the same test, then VoiceProtocolHandler.create_tts_request,
\* which the protocol handler does not define: AttributeError, re-raised.
send_text(cl) ==
    IF NotActive(cl) THEN [result |-> "NotActive", written |-> 0]
    ELSE [result |-> "AttributeError", written |-> 0]

\* finish_session: with a session and a socket, the finish-session frame is
\* sent and then the flag is cleared; an exception of send is logged and
\* leaves the flag as it was.
finish_session(cl) ==
    IF cl.is_session_started /\ cl.ws # "none"
    THEN IF cl.ws = "open"
         THEN [client |-> [cl EXCEPT !.is_session_started = FALSE],
               written |-> 1]
         ELSE [client |-> cl, written |-> 0]
    ELSE [client |-> cl, written |-> 0]

\* What recv() and parse_response give start_session: a message of one of
\* the types parse_response names, or an exception.
Responses ==
    {"SERVER_FULL_RESPONSE", "SERVER_ACK", "SERVER_ERROR", "UNKNOWN",
     "raised"}

\* A call on the client ends (or, for disconnect, reaches its wait).
ClientCall(op, cl, result, response, written) ==
    /\ clients' = <<cl>>
    /\ call' = [op |-> op, result |-> result, response |-> response,
                written |-> written, n |-> call.n + 1]
    /\ UNCHANGED dvars
    /\ UNCHANGED <<frame, wire, decoded, codec_pc, plan_supplied>>
    /\ UNCHANGED avars
    /\ UNCHANGED <<entry, PYAUDIO_AVAILABLE, adapter, bridge, session,
                   disconnect_tasks, cleanup_tasks, audio_device,
                   recorder_thread, player_thread, recoveries, returned,
                   chunk_client, stop_calls>>

CanCall ==
    /\ entry = "client"
    /\ call.n < MaxCalls
    /\ call.result # "waiting"

\* connect, on a new client or on one that has been connected before.
ClientConnect ==
    /\ CanCall
    /\ \E outcome \in {"refused", "handshake_rejected", "ok"} :
          ClientCall("connect", connect(clients[1], outcome),
                     IF outcome = "ok" THEN "True" ELSE "False", outcome,
                     IF outcome = "refused" THEN 0 ELSE 1)

\* start_session: the request is sent when the client is connected and the
\* socket is open, and then one response is read.
ClientStartSession ==
    /\ CanCall
    /\ \E response \in Responses :
          LET cl == clients[1]
              sent == cl.is_connected /\ cl.ws = "open"
              got == IF sent THEN response ELSE "none"
              after == start_session(cl, IF got = "SERVER_FULL_RESPONSE"
                                         THEN "ok" ELSE "session_rejected")
          IN  ClientCall("start_session", after,
                         IF got = "SERVER_FULL_RESPONSE"
                         THEN "True" ELSE "False",
                         got, IF sent THEN 1 ELSE 0)

ClientSendAudio ==
    /\ CanCall
    /\ LET r == send_audio(clients[1])
       IN  ClientCall("send_audio", clients[1], r.result, "none", r.written)

ClientSendText ==
    /\ CanCall
    /\ LET r == send_text(clients[1])
       IN  ClientCall("send_text", clients[1], r.result, "none", r.written)

ClientFinishSession ==
    /\ CanCall
    /\ LET r == finish_session(clients[1])
       IN  ClientCall("finish_session", r.client, "None", "none", r.written)

\* disconnect up to its wait for the acknowledgement and the close, or to
\* its end when there is nothing to close.
ClientDisconnect ==
    /\ CanCall
    /\ LET b == disconnect_begin(clients[1])
       IN  ClientCall("disconnect", b.client,
                      IF b.waiting THEN "waiting" ELSE "None", "none",
                      b.client.finish_connection_sent
                          - clients[1].finish_connection_sent)

\* The acknowledgement arrived or timed out and close() finished: the
\* finally block resets the client and disconnect returns.
ClientDisconnectReturn ==
    /\ entry = "client"
    /\ call.op = "disconnect"
    /\ call.result = "waiting"
    /\ clients' = <<disconnect_finally(clients[1])>>
    /\ call' = [call EXCEPT !.result = "None"]
    /\ UNCHANGED dvars
    /\ UNCHANGED <<frame, wire, decoded, codec_pc, plan_supplied>>
    /\ UNCHANGED avars
    /\ UNCHANGED <<entry, PYAUDIO_AVAILABLE, adapter, bridge, session,
                   disconnect_tasks, cleanup_tasks, audio_device,
                   recorder_thread, player_thread, recoveries, returned,
                   chunk_client, stop_calls>>

InitClient ==
    /\ interview_plan = <<>>
    /\ context = DialogContext
    /\ reply = "none"
    /\ follow_up_rounds = 0
    /\ advances = 0
    /\ entry = "client"
    /\ PYAUDIO_AVAILABLE = TRUE
    /\ adapter = [is_running |-> FALSE, is_connected |-> FALSE]
    /\ bridge = [is_connected |-> FALSE, is_running |-> FALSE,
                 voice_session |-> FALSE]
    /\ session = [is_running |-> FALSE, is_recording |-> FALSE,
                  is_playing |-> FALSE, voice_client |-> 0]
    /\ clients = <<VoiceServiceClient>>
    /\ disconnect_tasks = <<>>
    /\ cleanup_tasks = 0
    /\ audio_device = [pyaudio_instance |-> FALSE, input_stream |-> FALSE,
                       output_stream |-> FALSE]
    /\ recorder_thread = "none"
    /\ player_thread = "none"
    /\ recoveries = <<>>
    /\ returned = [start_interview |-> "none", bridge_start |-> "none",
                   stop |-> "none", executor_start |-> "none"]
    /\ chunk_client = 0
    /\ stop_calls = 0
    /\ Unexercised
    /\ Quiet
    /\ plan_supplied = TRUE

NextClient ==
    \/ ClientConnect
    \/ ClientStartSession
    \/ ClientSendAudio
    \/ ClientSendText
    \/ ClientFinishSession
    \/ ClientDisconnect
    \/ ClientDisconnectReturn
    \/ PeerClose

SpecClient == InitClient /\ [][NextClient]_vars

ClientTypeOK ==
    /\ call.op \in {"none", "connect", "start_session", "send_audio",
                    "send_text", "finish_session", "disconnect"}
    /\ call.result \in {"none", "True", "False", "None", "waiting",
                        "NotActive", "ConnectionClosed", "AttributeError"}
    /\ call.response \in Responses
                          \cup {"none", "refused", "handshake_rejected", "ok"}
    /\ call.written \in 0..1
    /\ call.n \in 0..MaxCalls

(***************************************************************************)
(* voice_protocol.py: the wire format.  A byte is a number in 0..255, a    *)
(* bytes object is the sequence of its bytes, and an ASCII str is the      *)
(* sequence of its character codes.                                        *)
(***************************************************************************)
MaxSessionIdLen == 2
MaxAudioLen == 1

PROTOCOL_VERSION == 1
CLIENT_FULL_REQUEST == 1
CLIENT_AUDIO_ONLY_REQUEST == 2
SERVER_FULL_RESPONSE == 9
SERVER_ACK == 11
SERVER_ERROR_RESPONSE == 15
NEG_SEQUENCE == 2
MSG_WITH_EVENT == 4
NO_SERIALIZATION == 0
JSON == 1
GZIP == 1

\* x & bit > 0 for a flag bit (a power of two).
HasFlag(x, bit) == (x \div bit) % 2 = 1

\* int.to_bytes(4, 'big').
to_bytes(n) ==
    <<(n \div 16777216) % 256, (n \div 65536) % 256, (n \div 256) % 256,
      n % 256>>

\* int.from_bytes(b, "big", signed=False); the empty bytes give 0.
RECURSIVE from_bytes(_)
from_bytes(b) ==
    IF b = <<>> THEN 0
    ELSE from_bytes(SubSeq(b, 1, Len(b) - 1)) * 256 + b[Len(b)]

\* int.from_bytes(b, "big", signed=True): two's complement, so a leading
\* byte of 128 or more counts as that byte minus 256.
from_bytes_signed(b) ==
    IF b # <<>> /\ b[1] >= 128
    THEN from_bytes([i \in 1..Len(b) |-> IF i = 1 THEN b[i] - 256 ELSE b[i]])
    ELSE from_bytes(b)

\* Python's b[lo:hi] and b[lo:]: a negative index counts from the end and
\* every index is clamped to the object, so a slice never raises.
PyIndex(i, n) ==
    IF i < 0 THEN (IF n + i < 0 THEN 0 ELSE n + i)
    ELSE (IF i > n THEN n ELSE i)

PySlice(b, lo, hi) ==
    SubSeq(b, PyIndex(lo, Len(b)) + 1, PyIndex(hi, Len(b)))

PyFrom(b, lo) == SubSeq(b, PyIndex(lo, Len(b)) + 1, Len(b))

\* gzip.compress and gzip.decompress: a stream is the magic number 1f 8b,
\* the data, and a trailer holding the size of the data; decompress raises
\* BadGzipFile without the magic number and EOFError when the stream ends
\* before its trailer says so.  The model's data bytes are all larger than
\* any data length, so no truncated stream passes for a complete one.
gzip_compress(data) == <<31, 139>> \o data \o <<Len(data) % 256>>

gzip_decompress(b) ==
    IF Len(b) < 2 \/ SubSeq(b, 1, 2) # <<31, 139>>
    THEN [raised |-> "BadGzipFile", data |-> <<>>]
    ELSE IF Len(b) < 3 \/ b[Len(b)] # (Len(b) - 3) % 256
    THEN [raised |-> "EOFError", data |-> <<>>]
    ELSE [raised |-> "no", data |-> SubSeq(b, 3, Len(b) - 1)]

\* json.dumps of a configuration is its text; the configurations of the
\* model are {} and {"a":1}.  json.loads(str(b, "utf-8")) raises ValueError
\* (JSONDecodeError or UnicodeDecodeError) on every other bytes object the
\* model builds: none of them is a JSON text.
Configs == {<<123, 125>>, <<123, 34, 97, 34, 58, 49, 125>>}

json_loads(b) ==
    IF b \in Configs THEN [raised |-> "no", form |-> "json", data |-> b]
    ELSE [raised |-> "ValueError", form |-> "none", data |-> <<>>]

\* str(b, "utf-8") raises on a byte that cannot start a character.
str_utf8(b) ==
    IF \E i \in 1..Len(b) : b[i] >= 128
    THEN [raised |-> "ValueError", form |-> "none", data |-> <<>>]
    ELSE [raised |-> "no", form |-> "str", data |-> b]

\* The frames the client builds.
SessionIds == UNION {[1..n -> {115, 49}] : n \in 0..MaxSessionIdLen}

AudioChunks == UNION {[1..n -> {7, 200}] : n \in 0..MaxAudioLen}

Frames ==
    [kind : {"connection", "finish_connection"}, session_id : {<<>>},
     payload : {<<123, 125>>}]
    \cup [kind : {"session"}, session_id : SessionIds, payload : Configs]
    \cup [kind : {"audio"}, session_id : SessionIds, payload : AudioChunks]
    \cup [kind : {"finish_session"}, session_id : SessionIds,
          payload : {<<123, 125>>}]

\* The event number each builder writes.
EventOf(kind) ==
    CASE kind = "connection" -> 1
      [] kind = "finish_connection" -> 2
      [] kind = "session" -> 100
      [] kind = "finish_session" -> 102
      [] kind = "audio" -> 200

generate_header(message_type, message_type_specific_flags, serial_method, compression_type, extension_header) ==
    <<PROTOCOL_VERSION * 16 + ((Len(extension_header) \div 4) + 1),
      message_type * 16 + message_type_specific_flags,
      serial_method * 16 + compression_type,
      0>> \o extension_header

create_connection_request ==
    LET payload_bytes == gzip_compress(<<123, 125>>)
    IN  generate_header(CLIENT_FULL_REQUEST, MSG_WITH_EVENT, JSON, GZIP, <<>>)
        \o to_bytes(1)
        \o to_bytes(Len(payload_bytes)) \o payload_bytes

create_session_request(session_id, config) ==
    LET payload_bytes == gzip_compress(config)
    IN  generate_header(CLIENT_FULL_REQUEST, MSG_WITH_EVENT, JSON, GZIP, <<>>)
        \o to_bytes(100)
        \o to_bytes(Len(session_id)) \o session_id
        \o to_bytes(Len(payload_bytes)) \o payload_bytes

create_audio_request(session_id, audio_data) ==
    LET payload_bytes == gzip_compress(audio_data)
    IN  generate_header(CLIENT_AUDIO_ONLY_REQUEST, MSG_WITH_EVENT,
                        NO_SERIALIZATION, GZIP, <<>>)
        \o to_bytes(200)
        \o to_bytes(Len(session_id)) \o session_id
        \o to_bytes(Len(payload_bytes)) \o payload_bytes

create_finish_session_request(session_id) ==
    LET payload_bytes == gzip_compress(<<123, 125>>)
    IN  generate_header(CLIENT_FULL_REQUEST, MSG_WITH_EVENT, JSON, GZIP, <<>>)
        \o to_bytes(102)
        \o to_bytes(Len(session_id)) \o session_id
        \o to_bytes(Len(payload_bytes)) \o payload_bytes

create_finish_connection_request ==
    LET payload_bytes == gzip_compress(<<123, 125>>)
    IN  generate_header(CLIENT_FULL_REQUEST, MSG_WITH_EVENT, JSON, GZIP, <<>>)
        \o to_bytes(2)
        \o to_bytes(Len(payload_bytes)) \o payload_bytes

\* The builder of each kind of frame.
encode(f) ==
    CASE f.kind = "connection" -> create_connection_request
      [] f.kind = "finish_connection" -> create_finish_connection_request
      [] f.kind = "session" -> create_session_request(f.session_id, f.payload)
      [] f.kind = "finish_session" ->
            create_finish_session_request(f.session_id)
      [] f.kind = "audio" -> create_audio_request(f.session_id, f.payload)

\* The frames the service sends that parse_response's server branch reads:
\* after the header come the fields the flags announce (the event, then
\* the sequence number), the session id with its length, and the payload
\* with its length, here neither serialised nor compressed.
ServerFrames ==
    [kind : {"server"},
     flags : {NEG_SEQUENCE, MSG_WITH_EVENT, NEG_SEQUENCE + MSG_WITH_EVENT},
     event : {50, 350}, seq : {1, 2},
     session_id : {<<>>, <<115>>}, payload : AudioChunks]

server_response(f) ==
    generate_header(SERVER_FULL_RESPONSE, f.flags, NO_SERIALIZATION, 0, <<>>)
    \o (IF HasFlag(f.flags, MSG_WITH_EVENT) THEN to_bytes(f.event) ELSE <<>>)
    \o (IF HasFlag(f.flags, NEG_SEQUENCE) THEN to_bytes(f.seq) ELSE <<>>)
    \o to_bytes(Len(f.session_id)) \o f.session_id
    \o to_bytes(Len(f.payload)) \o f.payload

\* VoiceMessage(message_type="UNKNOWN"): -1 stands for None.
VoiceMessage ==
    [outcome |-> "returned", message_type |-> "UNKNOWN", event |-> -1,
     seq |-> -1, session_id |-> [form |-> "str", bytes |-> <<>>],
     code |-> -1, payload_size |-> 0,
     payload_msg |-> [form |-> "none", data |-> <<>>]]

Raised(exception) == [NotDecoded EXCEPT !.outcome = exception]

\* The tail of parse_response: decompress, deserialise, fill the message.
deliver(message, payload_msg, payload_size, serialization_method, message_compression) ==
    LET unzipped == IF message_compression = GZIP
                    THEN gzip_decompress(payload_msg)
                    ELSE [raised |-> "no", data |-> payload_msg]
        value == IF serialization_method = JSON
                 THEN json_loads(unzipped.data)
                 ELSE IF serialization_method # NO_SERIALIZATION
                 THEN str_utf8(unzipped.data)
                 ELSE [raised |-> "no", form |-> "bytes",
                       data |-> unzipped.data]
    IN  IF unzipped.raised # "no" THEN Raised(unzipped.raised)
        ELSE IF value.raised # "no" THEN Raised(value.raised)
        ELSE [message EXCEPT
                 !.payload_msg = [form |-> value.form, data |-> value.data],
                 !.payload_size = payload_size]

\* parse_response.  Reading response_data[0..3] raises IndexError on fewer
\* than four bytes; only the server's message types are decoded, every
\* other type leaves the message UNKNOWN and empty.  The sequence number and
\* the event are read from the same four bytes, the session id is the slice
\* [4:session_id_size], and session_id holds str() of a bytes object, which
\* is its repr.
parse_response(response_data) ==
    IF Len(response_data) < 4 THEN Raised("IndexError")
    ELSE
    LET header_size == response_data[1] % 16
        message_type == response_data[2] \div 16
        message_type_specific_flags == response_data[2] % 16
        serialization_method == response_data[3] \div 16
        message_compression == response_data[3] % 16
        payload == PyFrom(response_data, header_size * 4)
    IN  IF message_type \in {SERVER_FULL_RESPONSE, SERVER_ACK}
        THEN LET has_seq == HasFlag(message_type_specific_flags,
                                    NEG_SEQUENCE)
                 has_event == HasFlag(message_type_specific_flags,
                                      MSG_WITH_EVENT)
                 start == (IF has_seq THEN 4 ELSE 0)
                          + (IF has_event THEN 4 ELSE 0)
                 body == PyFrom(payload, start)
                 session_id_size == from_bytes_signed(PySlice(body, 0, 4))
                 session_id == PySlice(body, 4, session_id_size)
                 rest == PyFrom(body, 4 + session_id_size)
                 message ==
                     [VoiceMessage EXCEPT
                         !.message_type =
                             IF message_type = SERVER_ACK
                             THEN "SERVER_ACK" ELSE "SERVER_FULL_RESPONSE",
                         !.seq = IF has_seq
                                 THEN from_bytes(PySlice(payload, 0, 4))
                                 ELSE -1,
                         !.event = IF has_event
                                   THEN from_bytes(PySlice(payload, 0, 4))
                                   ELSE -1,
                         !.session_id = [form |-> "repr",
                                         bytes |-> session_id]]
             IN  deliver(message, PyFrom(rest, 4),
                         from_bytes(PySlice(rest, 0, 4)),
                         serialization_method, message_compression)
        ELSE IF message_type = SERVER_ERROR_RESPONSE
        THEN LET message ==
                     [VoiceMessage EXCEPT
                         !.message_type = "SERVER_ERROR",
                         !.code = from_bytes(PySlice(payload, 0, 4))]
             IN  deliver(message, PyFrom(payload, 8),
                         from_bytes(PySlice(payload, 4, 8)),
                         serialization_method, message_compression)
        ELSE VoiceMessage

(***************************************************************************)
(* The codec exercised: a frame is built, the bytes reach parse_response   *)
(* whole or cut short, and parse_response decodes what arrived.            *)
(***************************************************************************)
Encode ==
    /\ codec_pc = "frame"
    /\ frame \in Frames
    /\ wire' = encode(frame)
    /\ codec_pc' = "encoded"
    /\ UNCHANGED <<frame, decoded, call, plan_supplied>>
    /\ UNCHANGED dvars
    /\ UNCHANGED vvars
    /\ UNCHANGED avars

\* A frame of the service arrives on the socket.
Arrive ==
    /\ codec_pc = "frame"
    /\ frame \in ServerFrames
    /\ wire' = server_response(frame)
    /\ codec_pc' = "encoded"
    /\ UNCHANGED <<frame, decoded, call, plan_supplied>>
    /\ UNCHANGED dvars
    /\ UNCHANGED vvars
    /\ UNCHANGED avars

Truncate ==
    /\ codec_pc = "encoded"
    /\ \E n \in 0..(Len(wire) - 1) : wire' = SubSeq(wire, 1, n)
    /\ codec_pc' = "truncated"
    /\ UNCHANGED <<frame, decoded, call, plan_supplied>>
    /\ UNCHANGED dvars
    /\ UNCHANGED vvars
    /\ UNCHANGED avars

Decode ==
    /\ codec_pc \in {"encoded", "truncated"}
    /\ decoded' = parse_response(wire)
    /\ codec_pc' = "decoded"
    /\ UNCHANGED <<frame, wire, call, plan_supplied>>
    /\ UNCHANGED dvars
    /\ UNCHANGED vvars
    /\ UNCHANGED avars

InitCodec ==
    /\ interview_plan = <<>>
    /\ context = DialogContext
    /\ reply = "none"
    /\ follow_up_rounds = 0
    /\ advances = 0
    /\ entry = "codec"
    /\ PYAUDIO_AVAILABLE = TRUE
    /\ Constructed
    /\ frame \in Frames \cup ServerFrames
    /\ wire = <<>>
    /\ decoded = NotDecoded
    /\ codec_pc = "frame"
    /\ call = NoCall
    /\ plan_supplied = TRUE
    /\ Quiet

NextCodec ==
    \/ Encode
    \/ Arrive
    \/ Truncate
    \/ Decode

SpecCodec == InitCodec /\ [][NextCodec]_vars

CodecTypeOK ==
    /\ frame \in Frames \cup ServerFrames \cup {NoFrame}
    /\ codec_pc \in {"idle", "frame", "encoded", "truncated", "decoded"}
    /\ \A i \in 1..Len(wire) : wire[i] \in 0..255
    /\ decoded.outcome \in
          {"none", "returned", "IndexError", "BadGzipFile", "EOFError",
           "ValueError"}

(***************************************************************************)
(* voice_audio_manager.py: what the session does with the messages of the  *)
(* service and with the chunks of the microphone.  The bridge is either    *)
(* the demo's ("bridge") or the one RealtimeVoiceAdapter builds, with the  *)
(* adapter's callbacks, started by itself ("adapter_bridge").              *)
(***************************************************************************)
MaxMessages == 6
MaxCaptured == 2

Messages == received.text + received.audio + received.other

\* queue.Queue.get: the oldest item, which leaves the queue.
queue_get_Newest(q) == [item |-> q[Len(q)], rest |-> SubSeq(q, 1, Len(q) - 1)]

queue_get(q) == [item |-> Head(q), rest |-> Tail(q)]

\* queue.Queue(): the queue is built without a maxsize, which is 0, "no
\* limit"; Queue.full answers 0 < maxsize <= qsize, and put waits while
\* the queue is full.
maxsize == 0

queue_full(q) == maxsize > 0 /\ Len(q) >= maxsize

\* _handle_voice_message with a recognised text ('result'): the session
\* calls on_text_received_callback(result), the bridge's _on_text_received,
\* which calls its on_text_received(text), both as plain calls.  The demo's
\* callback is a function and runs.  The adapter's _on_voice_text_received
\* is an `async def`: the call builds a coroutine object that nobody awaits
\* or schedules, so its body, with process_candidate_input, never runs.
ReceiveText ==
    /\ \E c \in 1..Len(clients) : Receiving(c)
    /\ Messages < MaxMessages
    /\ received' = [received EXCEPT !.text = @ + 1]
    /\ UNCHANGED dvars
    /\ UNCHANGED vvars
    /\ UNCHANGED xvars
    /\ UNCHANGED <<audio_queue, played, capture, cleanup_pc>>

\* _handle_voice_message with audio (a dict with 'audio', a bytes payload
\* or a SERVER_ACK with bytes): the chunk is put on the queue.
ReceiveAudio ==
    /\ \E c \in 1..Len(clients) : Receiving(c)
    /\ Messages < MaxMessages
    /\ ~queue_full(audio_queue)
    /\ received' = [received EXCEPT !.audio = @ + 1]
    /\ audio_queue' = Append(audio_queue, received.audio + 1)
    /\ UNCHANGED dvars
    /\ UNCHANGED vvars
    /\ UNCHANGED xvars
    /\ UNCHANGED <<played, capture, cleanup_pc>>

\* _handle_voice_message with any other message of the service, an event
\* that asks to flush the playback buffer among them: a payload with
\* neither 'result' nor 'audio' passes every test of the handler, which
\* returns without having done anything.
ReceiveOther ==
    /\ \E c \in 1..Len(clients) : Receiving(c)
    /\ Messages < MaxMessages
    /\ received' = [received EXCEPT !.other = @ + 1]
    /\ UNCHANGED dvars
    /\ UNCHANGED vvars
    /\ UNCHANGED xvars
    /\ UNCHANGED <<audio_queue, played, capture, cleanup_pc>>

\* One round of _audio_player_loop that finds a chunk: it is written to the
\* output stream when there is one, and dropped otherwise.
PlayerPlay ==
    /\ player_thread = "running"
    /\ session.is_playing
    /\ audio_queue # <<>>
    /\ LET got == queue_get(audio_queue)
       IN  /\ audio_queue' = got.rest
           /\ played' = IF audio_device.output_stream /\ PYAUDIO_AVAILABLE
                        THEN Append(played, got.item)
                        ELSE played
    /\ UNCHANGED dvars
    /\ UNCHANGED vvars
    /\ UNCHANGED xvars
    /\ UNCHANGED <<received, capture, cleanup_pc>>

InitPlayback ==
    /\ interview_plan \in VoicePlans
    /\ context = DialogContext
    /\ reply = "none"
    /\ follow_up_rounds = 0
    /\ advances = 0
    /\ entry \in {"bridge", "adapter_bridge"}
    /\ PYAUDIO_AVAILABLE \in BOOLEAN
    /\ Constructed
    /\ Unexercised
    /\ Quiet
    /\ plan_supplied = TRUE

NextPlayback ==
    \/ BridgeStart
    \/ ReceiveText
    \/ ReceiveAudio
    \/ ReceiveOther
    \/ ReceiveSessionEnd
    \/ PlayerPlay

SpecPlayback == InitPlayback /\ [][NextPlayback]_vars

\* The capture loop after future.result(timeout=0.1) has returned or
\* raised: TimeoutError is passed over and every other exception is
\* logged, so the loop is at its top again in every case.
after_send_Propagates(result) == IF result = "None" THEN "idle" ELSE "stopped"

after_send(result) == "idle"

\* One round of _audio_recorder_loop up to its wait: with the client
\* connected it reads a chunk, schedules send_audio(chunk) of the current
\* client on the event loop and waits for the result.
RecorderCapture ==
    /\ recorder_thread = "running"
    /\ session.is_recording /\ session.is_running
    /\ audio_device.input_stream
    /\ clients[session.voice_client].is_connected
    /\ capture.pc = "idle"
    /\ capture.chunk < MaxCaptured
    /\ capture' =
          [capture EXCEPT
              !.pc = "waiting",
              !.chunk = @ + 1,
              !.pending = Append(@, [chunk |-> capture.chunk + 1,
                                     client |-> session.voice_client])]
    /\ UNCHANGED dvars
    /\ UNCHANGED vvars
    /\ UNCHANGED xvars
    /\ UNCHANGED <<audio_queue, played, received, cleanup_pc>>

\* future.result gives up after its timeout.  The future is not cancelled:
\* the coroutine stays scheduled.
RecorderTimeout ==
    /\ capture.pc = "waiting"
    /\ capture' = [capture EXCEPT !.pc = "idle",
                                  !.timed_out = @ \cup {capture.chunk}]
    /\ UNCHANGED dvars
    /\ UNCHANGED vvars
    /\ UNCHANGED xvars
    /\ UNCHANGED <<audio_queue, played, received, cleanup_pc>>

\* The event loop runs the oldest scheduled send_audio; the capture loop,
\* when it still waits for this one, gets its result or its exception.
SendAudioRun ==
    /\ capture.pending # <<>>
    /\ LET job == Head(capture.pending)
           sent == send_audio(clients[job.client])
       IN  capture' =
              [capture EXCEPT
                  !.pending = Tail(@),
                  !.written = IF sent.written = 1
                              THEN Append(@, job.chunk) ELSE @,
                  !.failed = IF sent.result # "None"
                             THEN @ \cup {job.chunk} ELSE @,
                  !.pc = IF capture.pc = "waiting"
                            /\ job.chunk = capture.chunk
                         THEN after_send(sent.result) ELSE @]
    /\ UNCHANGED dvars
    /\ UNCHANGED vvars
    /\ UNCHANGED xvars
    /\ UNCHANGED <<audio_queue, played, received, cleanup_pc>>

InitCapture ==
    /\ InitPlayback
    /\ entry = "bridge"
    /\ PYAUDIO_AVAILABLE

NextCapture ==
    \/ BridgeStart
    \/ RecorderOpen
    \/ RecorderCapture
    \/ RecorderTimeout
    \/ SendAudioRun
    \/ ReceiveSessionEnd
    \/ PeerClose
    \/ ReceiveConnectionClosed

SpecCapture == InitCapture /\ [][NextCapture]_vars

AudioTypeOK ==
    /\ received \in [text : 0..MaxMessages, audio : 0..MaxMessages,
                     other : 0..MaxMessages]
    /\ Len(audio_queue) + Len(played) <= received.audio
    /\ capture.pc \in {"idle", "waiting", "stopped"}
    /\ capture.chunk \in 0..MaxCaptured
    /\ capture.failed \subseteq 1..capture.chunk
    /\ capture.timed_out \subseteq 1..capture.chunk

(***************************************************************************)
(* Stopping while a recovery is under way: the bridge is started, the      *)
(* service may ask to recreate the session, and stop may come at any       *)
(* point of the recovery.                                                  *)
(***************************************************************************)
NextShutdown ==
    \/ BridgeStart
    \/ BridgeStop
    \/ DisconnectBegin
    \/ DisconnectFinish
    \/ CleanupRun
    \/ ReceiveRecreateError
    \/ ReceiveConnectionClosed
    \/ RecoveryAttempt
    \/ RecoveryDisconnected
    \/ RecoveryReconnect
    \/ RecorderOpen
    \/ RecorderExit
    \/ PlayerExit

SpecShutdown == InitRecovery /\ [][NextShutdown]_vars

(***************************************************************************)
(* AudioDeviceManager.cleanup as the executor thread runs it, a statement  *)
(* at a time: the capture thread opens its stream when its start-up sleep  *)
(* is over, whatever the cleanup is doing.  The whole body is one try      *)
(* block: stop_stream, close or terminate raising takes the thread to the  *)
(* except clause, which logs, and the statements after it are not run.     *)
(***************************************************************************)
\* _blocking_cleanup_task is taken by a thread of the executor.
CleanupBegin ==
    /\ cleanup_tasks > 0
    /\ cleanup_pc \in {"idle", "done"}
    /\ cleanup_tasks' = cleanup_tasks - 1
    /\ cleanup_pc' = "input_stream"
    /\ UNCHANGED dvars
    /\ UNCHANGED xvars
    /\ UNCHANGED <<audio_queue, played, received, capture>>
    /\ UNCHANGED <<entry, PYAUDIO_AVAILABLE, adapter, bridge, session,
                   clients, disconnect_tasks, audio_device, recorder_thread,
                   player_thread, recoveries, returned, chunk_client,
                   stop_calls>>

\* One `if` of cleanup on the field `field` of the device: the test, and,
\* when the field is set, the calls that release it and the assignment of
\* None; `raises` says whether one of the calls raises.
cleanup_statement(field, after, raises) ==
    IF ~audio_device[field]
    THEN /\ cleanup_pc' = after
         /\ UNCHANGED audio_device
    ELSE IF raises
         THEN /\ cleanup_pc' = "done"
              /\ UNCHANGED audio_device
         ELSE /\ cleanup_pc' = after
              /\ audio_device' = [audio_device EXCEPT ![field] = FALSE]

\* if self.input_stream: stop_stream(); close(); self.input_stream = None
CleanupInput ==
    /\ cleanup_pc = "input_stream"
    /\ \E raises \in BOOLEAN :
          cleanup_statement("input_stream", "output_stream", raises)
    /\ UNCHANGED dvars
    /\ UNCHANGED xvars
    /\ UNCHANGED <<audio_queue, played, received, capture>>
    /\ UNCHANGED <<entry, PYAUDIO_AVAILABLE, adapter, bridge, session,
                   clients, disconnect_tasks, cleanup_tasks, recorder_thread,
                   player_thread, recoveries, returned, chunk_client,
                   stop_calls>>

\* if self.output_stream: stop_stream(); close(); self.output_stream = None
CleanupOutput ==
    /\ cleanup_pc = "output_stream"
    /\ \E raises \in BOOLEAN :
          cleanup_statement("output_stream", "pyaudio_instance", raises)
    /\ UNCHANGED dvars
    /\ UNCHANGED xvars
    /\ UNCHANGED <<audio_queue, played, received, capture>>
    /\ UNCHANGED <<entry, PYAUDIO_AVAILABLE, adapter, bridge, session,
                   clients, disconnect_tasks, cleanup_tasks, recorder_thread,
                   player_thread, recoveries, returned, chunk_client,
                   stop_calls>>

\* if self.pyaudio_instance: terminate(); self.pyaudio_instance = None
CleanupTerminate ==
    /\ cleanup_pc = "pyaudio_instance"
    /\ \E raises \in BOOLEAN :
          cleanup_statement("pyaudio_instance", "done", raises)
    /\ UNCHANGED dvars
    /\ UNCHANGED xvars
    /\ UNCHANGED <<audio_queue, played, received, capture>>
    /\ UNCHANGED <<entry, PYAUDIO_AVAILABLE, adapter, bridge, session,
                   clients, disconnect_tasks, cleanup_tasks, recorder_thread,
                   player_thread, recoveries, returned, chunk_client,
                   stop_calls>>

NextCleanup ==
    \/ BridgeStart
    \/ BridgeStop
    \/ DisconnectBegin
    \/ DisconnectFinish
    \/ CleanupBegin
    \/ CleanupInput
    \/ CleanupOutput
    \/ CleanupTerminate
    \/ RecorderOpen
    \/ RecorderExit
    \/ PlayerExit

SpecCleanup == InitRecovery /\ [][NextCleanup]_vars

(***************************************************************************)
(* Errors asking to recreate the session that arrive one after the other.  *)
(***************************************************************************)
NextRepeated ==
    \/ BridgeStart
    \/ ReceiveRecreateErrorAgain
    \/ ReceiveConnectionClosed
    \/ RecoveryAttempt
    \/ RecoveryDisconnected
    \/ RecoveryReconnect

SpecRepeated == InitRecovery /\ [][NextRepeated]_vars

(***************************************************************************)
(* The plan order of questions, stated independently of the manager: the   *)
(* questions of section 0 in order, then those of section 1, and so on.    *)
(***************************************************************************)
Position == <<context.current_section_index, context.current_question_index>>

Questions ==
    {p \in (0..(Len(interview_plan) - 1)) \X (0..MaxPlanQuestions) :
        p[2] < interview_plan[p[1] + 1]}

Ordinal(p) == Sum(SubSeq(interview_plan, 1, p[1])) + p[2]

TotalQuestions == Sum(interview_plan)

QuestionAt(k) == CHOOSE p \in Questions : Ordinal(p) = k

CandidateInputStep ==
    context'.conversation_history.candidate
        = context.conversation_history.candidate + 1

(***************************************************************************)
(* C1.  Driven by candidate answers and analysis results only, at most      *)
(* max_follow_ups follow-up rounds are opened for one main question, and   *)
(* the answer that brings follow_up_count to max_follow_ups advances to    *)
(* the next question whatever the analysis says.                           *)
(***************************************************************************)
C1_FollowUpBound ==
    [][/\ follow_up_rounds' <= max_follow_ups
       /\ (/\ CandidateInputStep
           /\ context.current_state = "following_up"
           /\ context.follow_up_count + 1 >= max_follow_ups)
          => /\ advances' = advances + 1
             /\ reply' \in {"main_question", "closing"}
             /\ follow_up_rounds' = 0 \/ context'.current_state = "completed"]_vars

C1_Witness ==
    /\ context.current_state = "following_up"
    /\ follow_up_rounds = max_follow_ups
    /\ context.follow_up_count = max_follow_ups - 1

(***************************************************************************)
(* C2.  Once the dialogue state is Closing or Completed, no later step     *)
(* changes the section index or the question index or leaves the terminal  *)
(* states.                                                                 *)
(***************************************************************************)
C2_TerminalStaysTerminal ==
    [][context.current_state \in {"closing", "completed"}
       => /\ context'.current_state \in {"closing", "completed"}
          /\ context'.current_section_index = context.current_section_index
          /\ context'.current_question_index = context.current_question_index]_vars

(***************************************************************************)
(* C3.  Every advance taken at a question of the plan moves to the next    *)
(* question in plan order and leaves the manager listening there, or, from *)
(* the last question, closes the interview; after as many advances as the  *)
(* plan has questions the interview is closed.                             *)
(***************************************************************************)
C3_AdvanceInPlanOrder ==
    [][(advances' = advances + 1 /\ Position \in Questions)
       => /\ IF Ordinal(Position) + 1 < TotalQuestions
             THEN /\ Position' = QuestionAt(Ordinal(Position) + 1)
                  /\ context'.current_state = "listening"
             ELSE context'.current_state = "completed"
          /\ advances' = TotalQuestions
                => context'.current_state = "completed"]_vars

\* The scenario of C3: sections of 2 and 1 questions, closed by 3 advances.
C3_Witness ==
    /\ interview_plan = <<2, 1>>
    /\ advances = 3
    /\ context.current_state = "completed"

(***************************************************************************)
(* Observations on the voice stack.                                        *)
(***************************************************************************)
StopStep == stop_calls' = stop_calls + 1

BridgeStartReturns ==
    returned.bridge_start = "none" /\ returned'.bridge_start # "none"

StartInterviewReturns ==
    returned.start_interview = "none" /\ returned'.start_interview # "none"

RECURSIVE Backoff(_)
Backoff(i) == IF i = 1 THEN retry_delay ELSE 2 * Backoff(i - 1)

RecoverySucceeded ==
    \E r \in 1..Len(recoveries) : recoveries[r].result = "True"

RecoveryFailed ==
    \E r \in 1..Len(recoveries) : recoveries[r].result = "False"

(***************************************************************************)
(* C4.  At every layer start reports success exactly when the transport    *)
(* session is active as it returns: a failed connect or a rejected session *)
(* start is reported as failure.                                           *)
(***************************************************************************)
C4_SuccessOnlyWhenActive ==
    [][/\ BridgeStartReturns
          => (returned'.bridge_start = "success" <=> SessionActive')
       /\ StartInterviewReturns
          => (returned'.start_interview = "success" <=> SessionActive')]_vars

(***************************************************************************)
(* C5.  start_interview returns as soon as the session is confirmed        *)
(* active: when it returns, either the session is active and it reports    *)
(* success, or the transport was contacted and refused.                    *)
(***************************************************************************)
C5_StartReturnsOnceActive ==
    [][StartInterviewReturns
       => \/ returned'.start_interview = "success" /\ SessionActive'
          \/ /\ returned'.start_interview = "error"
             /\ clients' # <<>>
             /\ ~SessionActive']_vars

(***************************************************************************)
(* C6.  stop returns without waiting for the socket teardown or the device *)
(* cleanup: as it returns the client and the device are as they were, the  *)
(* cleanup is submitted, and for a connected client the disconnect is a    *)
(* task that has not run.                                                  *)
(***************************************************************************)
C6_StopHandsOffTeardown ==
    [][StopStep
       => /\ returned'.stop = "success"
          /\ clients' = clients
          /\ audio_device' = audio_device
          /\ bridge.voice_session => cleanup_tasks' = cleanup_tasks + 1
          /\ (bridge.voice_session /\ SessionConnected)
             => disconnect_tasks' =
                   Append(disconnect_tasks,
                          [client |-> session.voice_client,
                           pc |-> "scheduled"])]_vars

C6_Witness ==
    /\ stop_calls >= 1
    /\ returned.stop = "success"
    /\ cleanup_tasks >= 1
    /\ audio_device.output_stream
    /\ \E t \in 1..Len(disconnect_tasks) :
          /\ disconnect_tasks[t].pc = "scheduled"
          /\ clients[disconnect_tasks[t].client].is_connected
          /\ clients[disconnect_tasks[t].client].ws = "open"

(***************************************************************************)
(* C7.  stop can be called in every state and every call succeeds and      *)
(* leaves running, recording and playing false; a call on a stack that is  *)
(* already stopped changes no connection state.                            *)
(***************************************************************************)
C7_StopIdempotent ==
    [][/\ (entry = "bridge" /\ stop_calls < MaxStops) => ENABLED BridgeStop
       /\ (entry = "interview_session" /\ stop_calls < MaxStops)
          => ENABLED StopInterview
       /\ StopStep
          => /\ returned'.stop = "success"
             /\ bridge.voice_session
                => /\ ~session'.is_running
                   /\ ~session'.is_recording
                   /\ ~session'.is_playing
             /\ ~bridge'.is_running
             /\ ~bridge'.is_connected
             /\ (stop_calls >= 1 /\ ~bridge.is_running)
                => /\ clients' = clients
                   /\ bridge'.is_connected = bridge.is_connected
                   /\ adapter'.is_connected = adapter.is_connected]_vars

C7_Witness ==
    /\ stop_calls >= 2
    /\ returned.bridge_start = "success"
    /\ returned.stop = "success"
    /\ Len(disconnect_tasks) = 2
    /\ ~session.is_running /\ ~session.is_recording /\ ~session.is_playing

(***************************************************************************)
(* C8.  A recovery makes at most max_retries attempts, sleeping 1, 2 and 4 *)
(* seconds before them; when the last attempt fails it ends and returns    *)
(* False, and it returns False in no other case.                           *)
(***************************************************************************)
C8_RecoveryBounded ==
    \A r \in 1..Len(recoveries) :
       LET rec == recoveries[r]
       IN  /\ rec.attempt <= max_retries
           /\ Len(rec.sleeps) <= max_retries
           /\ \A i \in 1..Len(rec.sleeps) : rec.sleeps[i] = Backoff(i)
           /\ rec.attempt = max_retries
              => rec.pc = "done" /\ rec.result = "False"
           /\ rec.result = "False"
              => rec.attempt = max_retries /\ Len(rec.sleeps) = max_retries

C8_Witness ==
    \E r \in 1..Len(recoveries) :
       /\ recoveries[r].pc = "done"
       /\ recoveries[r].result = "False"
       /\ recoveries[r].sleeps = <<1, 2, 4>>

(***************************************************************************)
(* C9.  Once a recovery has succeeded, audio capture has resumed: with an  *)
(* audio device, the session is recording and the capture thread is alive. *)
(***************************************************************************)
C9_CaptureResumes ==
    (RecoverySucceeded /\ PYAUDIO_AVAILABLE /\ session.is_running)
       => /\ session.is_recording
          /\ recorder_thread \in {"starting", "running"}

(***************************************************************************)
(* C10.  Once a recovery has failed for good, the owner has been told: the *)
(* session and the bridge no longer report running or connected, and the   *)
(* dialogue state is Closing or Completed.                                 *)
(***************************************************************************)
C10_FailureSurfaced ==
    RecoveryFailed
       => /\ ~session.is_running
          /\ ~bridge.is_running
          /\ ~bridge.is_connected
          /\ context.current_state \in {"closing", "completed"}

(***************************************************************************)
(* C11.  Decoding the bytes an encoder built gives the frame back: the     *)
(* decoded message has a known kind, the frame's event number, its session *)
(* id and its payload.                                                     *)
(***************************************************************************)
Whole == codec_pc = "decoded" /\ frame \in Frames /\ wire = encode(frame)

Prefix == codec_pc = "decoded" /\ frame \in Frames /\ Len(wire) < Len(encode(frame))

C11_RoundTrip ==
    Whole =>
        /\ decoded.outcome = "returned"
        /\ decoded.message_type # "UNKNOWN"
        /\ decoded.event = EventOf(frame.kind)
        /\ decoded.session_id = [form |-> "str", bytes |-> frame.session_id]
        /\ decoded.payload_msg.data = frame.payload

\* The session-start frame with session id "s1" has been decoded.
C11_Witness ==
    /\ Whole
    /\ frame.kind = "session"
    /\ frame.session_id = <<115, 49>>

(***************************************************************************)
(* C12.  Decoding a strict prefix of an encoded frame never returns a      *)
(* message: it ends in an error.                                           *)
(***************************************************************************)
C12_PrefixRejected == Prefix => decoded.outcome # "returned"

\* A prefix that still holds the whole header has been decoded.
C12_Witness == Prefix /\ Len(wire) >= 4

(***************************************************************************)
(* C13.  send_audio and send_text called while the session is not active   *)
(* fail with the not-active error, write no frame and leave the client as  *)
(* it was.                                                                 *)
(***************************************************************************)
Called(op) == call'.n = call.n + 1 /\ call'.op = op

C13_NotActiveRejected ==
    [][(Called("send_audio") \/ Called("send_text"))
        /\ ~(clients[1].is_connected /\ clients[1].is_session_started)
       => /\ call'.result = "NotActive"
          /\ call'.written = 0
          /\ clients' = clients]_vars

\* send_audio has been refused on a connected client without a session.
C13_Witness ==
    /\ call.op = "send_audio"
    /\ call.result = "NotActive"
    /\ clients[1].is_connected
    /\ clients[1].ws = "open"

(***************************************************************************)
(* C14.  start_session on a connected client without a session writes at   *)
(* most one session-start frame (exactly one when the socket is open),     *)
(* makes the session active exactly when the response read is a full       *)
(* response, returns True exactly then, and leaves the client connected    *)
(* in every case.                                                          *)
(***************************************************************************)
C14_StartSession ==
    [][Called("start_session")
        /\ clients[1].is_connected /\ ~clients[1].is_session_started
       => /\ clients'[1].is_connected
          /\ call'.written = (IF clients[1].ws = "open" THEN 1 ELSE 0)
          /\ clients'[1].is_session_started
                <=> call'.response = "SERVER_FULL_RESPONSE"
          /\ call'.result = "True"
                <=> call'.response = "SERVER_FULL_RESPONSE"]_vars

\* A session request was answered by something else than a full response:
\* the call failed and the client is still connected.
C14_Witness ==
    /\ call.op = "start_session"
    /\ call.response = "SERVER_ACK"
    /\ call.result = "False"
    /\ clients[1].is_connected
    /\ ~clients[1].is_session_started

(***************************************************************************)
(* C15.  finish_session and disconnect raise nothing and leave no session  *)
(* started (disconnect, once returned, leaves the client disconnected);    *)
(* called again, or without a session or connection, they write no frame.  *)
(***************************************************************************)
C15_FinishIdempotent ==
    [][/\ Called("finish_session")
          => /\ call'.result = "None"
             /\ ~clients'[1].is_session_started
             /\ ~clients[1].is_session_started
                   => call'.written = 0 /\ clients' = clients
       /\ Called("disconnect")
          => /\ call'.result \in {"None", "waiting"}
             /\ ~clients'[1].is_session_started
             /\ ~clients[1].is_connected => call'.written = 0
       /\ (call.op = "disconnect" /\ call.result = "waiting"
           /\ call'.result = "None")
          => /\ ~clients'[1].is_connected
             /\ ~clients'[1].is_session_started]_vars

\* finish_session has been called twice in a row; the second call wrote
\* nothing.
C15_Witness ==
    /\ call.op = "finish_session"
    /\ call.written = 0
    /\ call.n >= 4
    /\ ~clients[1].is_session_started
    /\ clients[1].is_connected

(***************************************************************************)
(* C16.  The caller of disconnect is never suspended in it on the wait for *)
(* the acknowledgement or on the close of the socket.                      *)
(***************************************************************************)
C16_DisconnectReturnsFirst ==
    ~(call.op = "disconnect" /\ call.result = "waiting")

(***************************************************************************)
(* C17.  On no connection is the finish-connection frame written more than *)
(* once, however often stop is called and however the disconnect tasks     *)
(* and the receive loop interleave.                                        *)
(***************************************************************************)
C17_TeardownOnce ==
    \A c \in 1..Len(clients) : clients[c].finish_connection_sent <= 1

\* stop has been called twice on a started session and a disconnect task
\* has written the finish-connection frame.
C17_Witness ==
    /\ stop_calls = 2
    /\ \E c \in 1..Len(clients) : clients[c].finish_connection_sent = 1

(***************************************************************************)
(* C18.  When the receive loop of a client ends because the socket is no   *)
(* longer open, the connection-lost notification has been delivered        *)
(* exactly once.                                                           *)
(***************************************************************************)
LoopEndsOnDisconnect(c) ==
    /\ c <= Len(clients')
    /\ clients[c].receiver = "running"
    /\ clients'[c].receiver = "done"
    /\ clients[c].ws # "open"

C18_ConnectionLostOnce ==
    [][\A c \in 1..Len(clients) :
          LoopEndsOnDisconnect(c) => clients'[c].connection_lost = 1]_vars

\* A receive loop has ended on a socket closed by the service.
C18_Witness ==
    \E c \in 1..Len(clients) :
       /\ clients[c].receiver = "done"
       /\ clients[c].ws = "closed"
       /\ ~clients[c].is_connected

(***************************************************************************)
(* C19.  A start made without an interview plan fails with the no-plan     *)
(* error, and when it returns no client exists, no audio device is         *)
(* initialised and no audio thread runs.                                   *)
(***************************************************************************)
StartReturns ==
    \/ returned.start_interview = "none" /\ returned'.start_interview # "none"
    \/ returned.executor_start = "none" /\ returned'.executor_start # "none"

C19_NoPlanRejected ==
    [][StartReturns /\ ~plan_supplied
       => /\ returned'.executor_start = "no_plan"
             \/ returned'.start_interview = "no_plan"
          /\ clients' = <<>>
          /\ ~audio_device'.pyaudio_instance
          /\ recorder_thread' = "none"
          /\ player_thread' = "none"]_vars

\* ExecutorAgent.start has refused a context without a plan.
C19_Witness ==
    /\ returned.executor_start = "no_plan"
    /\ clients = <<>>
    /\ ~adapter.is_running

(***************************************************************************)
(* C20.  When a candidate input is answered with the fallback utterance    *)
(* because an analysis or generation call failed, the dialogue state, the  *)
(* section and question indices, the follow-up count and the supervisor    *)
(* queue are what they were before that input.                             *)
(***************************************************************************)
C20_FallbackKeepsState ==
    [][CandidateInputStep /\ reply' = "fallback"
       => /\ context'.current_state = context.current_state
          /\ Position' = Position
          /\ context'.follow_up_count = context.follow_up_count
          /\ context'.supervisor_instructions
                = context.supervisor_instructions]_vars

\* An answer to a main question met a failing analysis call: the fallback
\* was returned and the manager still listens at the same question.
C20_Witness ==
    /\ reply = "fallback"
    /\ context.current_state = "listening"
    /\ context.follow_up_count = 0
    /\ context.conversation_history.candidate >= 1

(***************************************************************************)
(* C21.  A candidate input handled as a supervisor intervention consumes   *)
(* exactly the oldest pending instruction: the instructions queued behind  *)
(* it stay queued for the inputs to come.                                  *)
(***************************************************************************)
InterventionStep == CandidateInputStep /\ reply' = "intervention"

C21_SupervisorFifo ==
    [][InterventionStep
       => /\ context.supervisor_instructions # <<>>
          /\ context'.supervisor_instructions
                = Tail(context.supervisor_instructions)]_vars

\* An intervention has answered the only pending instruction.
C21_Witness ==
    /\ reply = "intervention"
    /\ context.supervisor_instructions = <<>>
    /\ context.current_state \in {"listening", "following_up"}

(***************************************************************************)
(* C22.  In every dialogue state, with the supervisor queue empty or not   *)
(* and the plan exhausted or not, process_candidate_input can be called,   *)
(* and whatever the analysis says or the calls it makes do, it returns an  *)
(* utterance: no exception reaches its caller.                             *)
(***************************************************************************)
Utterances ==
    {"main_question", "closing", "clarification", "general", "intervention",
     "fallback"}

C22_Totality ==
    /\ [](CanInput => ENABLED ProcessCandidateInput)
    /\ [][CandidateInputStep => reply' \in Utterances]_vars

\* A handler raised in the middle of a supervisor intervention and the
\* caller still got an utterance.
C22_Witness ==
    /\ reply = "fallback"
    /\ context.current_state = "supervisor_intervention"
    /\ context.supervisor_instructions # <<>>

(***************************************************************************)
(* C27.  send_text called while the session is active writes exactly one   *)
(* frame on the socket and returns without error.                          *)
(***************************************************************************)
C27_SendTextWritesFrame ==
    [][Called("send_text")
        /\ clients[1].is_connected /\ clients[1].is_session_started
        /\ clients[1].ws = "open"
       => /\ call'.result = "None"
          /\ call'.written = 1]_vars

\* send_text has been called on an active session with an open socket.
C27_Witness ==
    /\ call.op = "send_text"
    /\ call.result # "NotActive"
    /\ clients[1].is_connected /\ clients[1].is_session_started
    /\ clients[1].ws = "open"

(***************************************************************************)
(* C25.  When disconnect writes the finish-connection frame and starts to  *)
(* wait for the acknowledgement with recv, the receive loop of that        *)
(* client is not running: the loop is the only reader of the socket.       *)
(***************************************************************************)
DisconnectReads(c) ==
    /\ c <= Len(clients')
    /\ clients'[c].finish_connection_sent
          = clients[c].finish_connection_sent + 1

C25_SingleReader ==
    [][\A c \in 1..Len(clients) :
          DisconnectReads(c) => clients[c].receiver # "running"]_vars

\* A disconnect task waits for its acknowledgement on a socket whose
\* receive loop has already ended.
C25_Witness ==
    \E t \in 1..Len(disconnect_tasks) :
       LET cl == clients[disconnect_tasks[t].client]
       IN  /\ disconnect_tasks[t].pc = "closing"
           /\ cl.finish_connection_sent = 1
           /\ cl.receiver = "done"

(***************************************************************************)
(* C28.  A received frame whose flags announce both an event and a         *)
(* sequence number is decoded with the event taken from the first four     *)
(* bytes after the header and the sequence number from the next four, and  *)
(* the session-id length from the bytes after both fields.                 *)
(***************************************************************************)
BothFields ==
    /\ codec_pc = "decoded"
    /\ frame \in ServerFrames
    /\ frame.flags = NEG_SEQUENCE + MSG_WITH_EVENT
    /\ wire = server_response(frame)

C28_EventThenSequence ==
    BothFields => /\ decoded.event = frame.event
                  /\ decoded.seq = frame.seq
                  /\ decoded.payload_size = Len(frame.payload)

\* A whole frame with both fields has been decoded; the event and the
\* payload length (which follows the session id, whose length follows both
\* fields) are the frame's.
C28_Witness ==
    /\ BothFields
    /\ decoded.outcome = "returned"
    /\ decoded.event = frame.event
    /\ decoded.payload_size = Len(frame.payload)
    /\ frame.session_id # <<>>

(***************************************************************************)
(* C23.  When the event of the service that asks to flush the playback     *)
(* buffer is handled, every chunk still queued is discarded in that step:  *)
(* the queue is empty afterwards.                                          *)
(***************************************************************************)
FlushStep == received'.other = received.other + 1

C23_FlushEmptiesQueue == [][FlushStep => audio_queue' = <<>>]_vars

\* The event has been handled while five chunks were queued.
C23_Witness == received.other = 1 /\ Len(audio_queue) = 5

(***************************************************************************)
(* C24.  Each recognised text the session receives on the adapter's        *)
(* bridge is processed by exactly one process_candidate_input call of the  *)
(* dialogue manager, made before the receive loop handles the next         *)
(* message.                                                                *)
(***************************************************************************)
TextStep == received'.text = received.text + 1

C24_TextProcessedOnce ==
    [][TextStep /\ entry = "adapter_bridge"
       => context'.conversation_history.candidate
             = context.conversation_history.candidate + 1]_vars

\* Two recognised texts have been received on the adapter's bridge.
C24_Witness ==
    /\ entry = "adapter_bridge"
    /\ received.text = 2
    /\ context.conversation_history.candidate = 0

(***************************************************************************)
(* C30.  The chunks are written to the output stream in the order in which *)
(* the handler enqueued them: the chunks played are in increasing order    *)
(* of arrival (none twice, no two reordered), every chunk still queued     *)
(* arrived after every chunk taken, and the queue holds them in order.     *)
(***************************************************************************)
Increasing(q) == \A i, j \in 1..Len(q) : i < j => q[i] < q[j]

C30_PlaybackOrder ==
    /\ Increasing(played \o audio_queue)
    /\ \A i \in 1..Len(played) : played[i] \in 1..received.audio

\* Chunks have been played while later chunks were waiting in the queue.
C30_Witness == Len(played) >= 2 /\ Len(audio_queue) >= 2

(***************************************************************************)
(* C29.  The capture loop waits for the send of a chunk no longer than     *)
(* its timeout and is at the top of the loop again whether the send        *)
(* succeeded, failed or timed out: no outcome of a send ends the loop.  A  *)
(* chunk whose send fails is never written; a chunk whose handoff timed    *)
(* out stays scheduled and is sent when the event loop comes to it.        *)
(***************************************************************************)
Written == {capture.written[i] : i \in 1..Len(capture.written)}

Pending == {capture.pending[i].chunk : i \in 1..Len(capture.pending)}

C29_CaptureContinues ==
    /\ [](capture.pc = "waiting" => ENABLED RecorderTimeout)
    /\ [](capture.pc # "stopped")
    /\ [][recorder_thread = "running" => recorder_thread' = "running"]_vars
    /\ [](capture.failed \cap Written = {})
    /\ [](capture.timed_out \subseteq Pending \cup Written \cup capture.failed)

\* A chunk whose handoff timed out is dropped: it is never written.
C29_TimedOutDropped == capture.timed_out \cap Written = {}

\* One chunk timed out and was sent afterwards, the send of another failed,
\* and the loop is at its top.
C29_Witness ==
    /\ capture.timed_out \cap Written # {}
    /\ capture.failed # {}
    /\ capture.pc = "idle"
    /\ recorder_thread = "running"

(***************************************************************************)
(* C26.  After stop has cleared the flags, the receive loop, the capture   *)
(* loop and the playback loop all end: once stop has been called and       *)
(* every task, recovery and loop has taken the steps it can take, no loop  *)
(* is running any more.                                                    *)
(***************************************************************************)
Settled ==
    /\ stop_calls > 0
    /\ returned.bridge_start # "none"
    /\ ~session.is_running /\ ~session.is_playing
    /\ disconnect_tasks = <<>>
    /\ cleanup_tasks = 0
    /\ \A r \in 1..Len(recoveries) : recoveries[r].pc = "done"
    /\ ~ENABLED ReceiveConnectionClosed
    /\ ~ENABLED RecorderOpen
    /\ ~ENABLED RecorderExit
    /\ ~ENABLED PlayerExit

NoLoopRuns ==
    /\ \A c \in 1..Len(clients) : clients[c].receiver # "running"
    /\ recorder_thread \notin {"starting", "running"}
    /\ player_thread # "running"

C26_LoopsEndAfterStop == Settled => NoLoopRuns

\* Stop without a recovery in its way: everything has run and the three
\* loops have ended.
C26_Witness ==
    /\ Settled
    /\ NoLoopRuns
    /\ recoveries = <<>>
    /\ player_thread = "exited"
    /\ recorder_thread = "exited"
    /\ clients[1].receiver = "done"

(***************************************************************************)
(* C40.  In every reachable state of the client a started session implies  *)
(* a connection: is_session_started => is_connected.                       *)
(***************************************************************************)
C40_StartedImpliesConnected ==
    \A c \in 1..Len(clients) :
       clients[c].is_session_started => clients[c].is_connected

\* A session has been started and ended again by the calls of the client.
C40_Witness ==
    /\ call.op = "disconnect"
    /\ call.result = "None"
    /\ call.n >= 3
    /\ ~clients[1].is_session_started /\ ~clients[1].is_connected

(***************************************************************************)
(* C33.  When an intervention has produced its response, the state that    *)
(* follows is chosen by the instruction answered: a skip instruction       *)
(* advances to the next question (or closes the interview after the last   *)
(* one), a deeper-probing instruction sets FollowingUp at the same         *)
(* question, any other sets Listening at the same question; the state is   *)
(* never left at SupervisorIntervention.                                   *)
(***************************************************************************)
Answered ==
    context.supervisor_instructions[Len(context.supervisor_instructions)]

C33_StateAfterIntervention ==
    [][InterventionStep
       => /\ context'.current_state # "supervisor_intervention"
          /\ Answered.skip
                => /\ advances' = advances + 1
                   /\ context'.current_state \in {"listening", "completed"}
                   /\ Position' # Position
          /\ ~Answered.skip /\ Answered.deeper
                => /\ context'.current_state = "following_up"
                   /\ Position' = Position /\ advances' = advances
          /\ ~Answered.skip /\ ~Answered.deeper
                => /\ context'.current_state = "listening"
                   /\ Position' = Position /\ advances' = advances]_vars

\* A deeper-probing instruction has been answered while the manager was
\* listening, and a skip instruction before it.
C33_Witness ==
    /\ reply = "intervention"
    /\ context.current_state = "following_up"
    /\ advances >= 1
    /\ context.follow_up_count = 0

(***************************************************************************)
(* C34.  follow_up_count is 0 after every step that poses a main question, *)
(* is one more after every candidate input received in FollowingUp that    *)
(* does not pose a main question, and is unchanged by every other step.    *)
(***************************************************************************)
PosesQuestion ==
    context'.conversation_history.interviewer
        > context.conversation_history.interviewer
    /\ context'.current_state = "listening"
    /\ (reply' \in {"main_question", "greeting"}
          \/ (reply' = "intervention" /\ advances' = advances + 1))

AnswersFollowUp ==
    CandidateInputStep /\ context.current_state = "following_up"

C34_FollowUpCount ==
    [][IF PosesQuestion THEN context'.follow_up_count = 0
       ELSE IF AnswersFollowUp
       THEN context'.follow_up_count = context.follow_up_count + 1
       ELSE context'.follow_up_count = context.follow_up_count]_vars

\* An answer to a follow-up has been handled by _handle_followup_response
\* and counted.
C34_Witness ==
    /\ context.follow_up_count = 1
    /\ context.current_state = "following_up"
    /\ context.supervisor_instructions = <<>>
    /\ follow_up_rounds = 2

(***************************************************************************)
(* C38.  Whenever the dialogue state is Listening or FollowingUp, the      *)
(* section index and the question index name a question of the plan.       *)
(***************************************************************************)
C38_PositionIsQuestion ==
    context.current_state \in {"listening", "following_up"}
       => Position \in Questions

\* The manager listens at the second question of a plan after an advance.
C38_Witness ==
    /\ context.current_state = "listening"
    /\ advances = 1
    /\ Position \in Questions
    /\ Position = <<0, 1>>

(***************************************************************************)
(* C39.  When start fails, the status reported afterwards is not running   *)
(* and not connected, and no loop or thread of the session is running.     *)
(***************************************************************************)
C39_FailedStartResetsStatus ==
    [][StartInterviewReturns /\ returned'.start_interview = "error"
       => /\ ~adapter'.is_running
          /\ ~adapter'.is_connected
          /\ NoLoopRuns']_vars

\* start_interview has failed; nothing is connected and no loop runs.
C39_Witness ==
    /\ returned.start_interview = "error"
    /\ ~adapter.is_connected
    /\ NoLoopRuns
    /\ stop_calls = 0

(***************************************************************************)
(* C35.  The connected and session-started flags of a client are written   *)
(* by the client's own operations only: the step in which the session's    *)
(* message handler reacts to an error of the service leaves the flags of   *)
(* every client as they were.                                              *)
(***************************************************************************)
HandlerStep == Len(recoveries') = Len(recoveries) + 1

C35_FlagsWrittenByClientOnly ==
    [][HandlerStep
       => \A c \in 1..Len(clients) :
             /\ clients'[c].is_connected = clients[c].is_connected
             /\ clients'[c].is_session_started
                   = clients[c].is_session_started]_vars

\* The handler has reacted to an error while the session was active.
C35_Witness ==
    /\ Len(recoveries) = 1
    /\ recoveries[1].pc = "attempt"
    /\ clients[1].is_connected
    /\ clients[1].receiver = "running"

(***************************************************************************)
(* C36.  Once stop has been called on a started session, no step opens a   *)
(* new connection, starts a new receive loop, marks a client connected or  *)
(* in a session, or switches recording on.                                 *)
(***************************************************************************)
Stopped == stop_calls > 0 /\ returned.bridge_start # "none"

C36_NothingRevivedAfterStop ==
    [][Stopped
       => /\ Len(clients') = Len(clients)
          /\ \A c \in 1..Len(clients) :
                /\ clients'[c].is_connected => clients[c].is_connected
                /\ clients'[c].is_session_started
                      => clients[c].is_session_started
                /\ clients'[c].receiver = "running"
                      => clients[c].receiver = "running"
          /\ session'.is_recording => session.is_recording]_vars

\* A recovery that was under way when stop was called has given up without
\* a new session.
C36_Witness ==
    /\ Stopped
    /\ Len(recoveries) = 1
    /\ recoveries[1].result = "False"
    /\ ~session.is_recording

(***************************************************************************)
(* C37.  At most one recovery is under way at any time, and at most one    *)
(* receive loop is running on a connected client.                          *)
(***************************************************************************)
UnderWay == {r \in 1..Len(recoveries) : recoveries[r].pc # "done"}

Loops == {c \in 1..Len(clients) : clients[c].receiver = "running" /\ clients[c].is_connected}

C37_OneRecoveryAtATime == Cardinality(UnderWay) <= 1 /\ Cardinality(Loops) <= 1

\* Two recoveries have run to their end and each has left a receive loop
\* running on a connection of its own.
C37_Witness ==
    /\ Len(recoveries) = 2
    /\ UnderWay = {}
    /\ Cardinality(Loops) = 2

\* C31: the playback queue has a fixed maximum depth that is never
\* exceeded, whatever the rates of arrival and of playback: the queue never
\* holds more chunks than its limit, and so does not hold every audio frame
\* of a run in which MaxMessages of them arrive.
C31_QueueBounded ==
    /\ maxsize > 0 => Len(audio_queue) <= maxsize
    /\ Len(audio_queue) < MaxMessages

\* Every frame that arrived is audio and is waiting on the queue while the
\* player runs.
C31_Witness ==
    /\ session.is_playing
    /\ player_thread = "running"
    /\ received.audio = MaxMessages
    /\ Len(audio_queue) = received.audio

\* Every cleanup that stop submitted has returned.
CleanupCompleted ==
    /\ returned.stop # "none"
    /\ cleanup_tasks = 0
    /\ cleanup_pc = "done"

\* C32: every audio stream opened for the session, the output stream of
\* start and the input stream of the capture thread, is closed once the
\* cleanup of stop has completed, on every path of the cleanup and under
\* every interleaving with the capture thread opening its stream.
C32_StreamsClosedAfterCleanup ==
    CleanupCompleted =>
        /\ ~audio_device.input_stream
        /\ ~audio_device.output_stream

\* The cleanup ran to its end without an error, closed the output stream
\* and terminated PyAudio, and the capture thread has opened its stream.
C32_Witness ==
    /\ CleanupCompleted
    /\ ~audio_device.pyaudio_instance
    /\ ~audio_device.output_stream
    /\ audio_device.input_stream
    /\ recorder_thread \in {"running", "exited"}

====
